---- MODULE Spec2Model ----
(***************************************************************************)
(* A model of the btcscript engine: parseScript, NewScript, Step and       *)
(* Execute of script.go, with the opcode table, the opcode executors and   *)
(* the Stack type (opcode.go, stack.go) modelled from the specification.   *)
(*                                                                         *)
(* Conventions.  A byte is a number in 0..255, a byte string a sequence of *)
(* bytes.  Go slices are 0-based; sequences here are 1-based, so s[i] in   *)
(* the source is s[i+1] here and s[a:b] is SubSeq(s, a+1, b).  A Stack is  *)
(* a sequence whose last element is the top.  The conditional stack keeps  *)
(* the innermost mark at Go index 0, which is condStack[1] here.           *)
(***************************************************************************)
EXTENDS Integers, Sequences, FiniteSets, TLC

\* ------------------------------------------------------------------ bounds
\* Most instructions in a generated signature script (before a redeem push).
MaxSigOps == 1
\* Most instructions in a generated public-key script.
MaxPkOps == 3
\* Most bytes in a generated P2SH redeem script.
MaxRedeemLen == 2

\* ------------------------------------------------------- program constants
MaxOpsPerScript == 201
MaxScriptElementSize == 520

\* Opcode values (the Bitcoin consensus assignment).
OP_0 == 0
OP_FALSE == 0
OP_DATA_1 == 1
OP_DATA_2 == 2
OP_DATA_20 == 20
OP_DATA_75 == 75
OP_PUSHDATA1 == 76
OP_PUSHDATA2 == 77
OP_PUSHDATA4 == 78
OP_1NEGATE == 79
OP_RESERVED == 80
OP_1 == 81
OP_16 == 96
OP_NOP == 97
OP_VER == 98
OP_IF == 99
OP_NOTIF == 100
OP_VERIF == 101
OP_VERNOTIF == 102
OP_ELSE == 103
OP_ENDIF == 104
OP_VERIFY == 105
OP_RETURN == 106
OP_TOALTSTACK == 107
OP_FROMALTSTACK == 108
OP_DROP == 117
OP_DUP == 118
OP_CAT == 126
OP_SUBSTR == 127
OP_LEFT == 128
OP_RIGHT == 129
OP_INVERT == 131
OP_AND == 132
OP_OR == 133
OP_XOR == 134
OP_EQUAL == 135
OP_RESERVED1 == 137
OP_RESERVED2 == 138
OP_2MUL == 141
OP_2DIV == 142
OP_MUL == 149
OP_DIV == 150
OP_MOD == 151
OP_LSHIFT == 152
OP_RSHIFT == 153
OP_HASH160 == 169
OP_CODESEPARATOR == 171

\* Marks of the conditional stack.
OpCondFalse == 0
OpCondTrue == 1
OpCondSkip == 2

Byte == 0..255

\* ------------------------------------------------------------ opcode table
\* The encoded length of an opcode descriptor: 1 = no immediate, N > 1 = an
\* N-byte instruction, -1/-2/-4 = a length prefix of that many bytes.
opcodeLength(b) ==
    IF b >= OP_DATA_1 /\ b <= OP_DATA_75 THEN b + 1
    ELSE IF b = OP_PUSHDATA1 THEN -1
    ELSE IF b = OP_PUSHDATA2 THEN -2
    ELSE IF b = OP_PUSHDATA4 THEN -4
    ELSE 1

\* The 256-entry dispatch table keyed by byte value.
opcodemap == [b \in Byte |-> [value |-> b, length |-> opcodeLength(b)]]

\* ------------------------------------------------------------------ parser
\* The largest integer of the checker.  A uint of the source from 2^31 on is
\* held as MaxInt: lengths are only compared with script lengths and
\* MaxScriptElementSize, which are all below it.
MaxInt == 2147483647

scriptUInt8(script) ==
    IF Len(script) <= 1 THEN [err |-> "ShortScript", l |-> 0]
    ELSE [err |-> "nil", l |-> script[1]]

scriptUInt16(script) ==
    IF Len(script) <= 2 THEN [err |-> "ShortScript", l |-> 0]
    ELSE [err |-> "nil", l |-> script[2] * 256 + script[1]]

scriptUInt32(script) ==
    IF Len(script) <= 4 THEN [err |-> "ShortScript", l |-> 0]
    ELSE [err |-> "nil",
          l |-> IF script[4] >= 128 THEN MaxInt
                ELSE script[4] * 16777216 + script[3] * 65536
                     + script[2] * 256 + script[1]]

\* script[from:] of the source (from is 0-based).
SliceFrom(script, from) == SubSeq(script, from + 1, Len(script))

\* op, ok := opcodemap[instr]
lookupOpcode(opcodes, instr) ==
    IF instr \in DOMAIN opcodes THEN [ok |-> TRUE, op |-> opcodes[instr]]
    ELSE [ok |-> FALSE, op |-> [value |-> instr, length |-> 0]]

\* Variant of readLength that reads four bytes for any other length.
readLength_default4(length, rest) ==
    IF length = -1 THEN scriptUInt8(rest)
    ELSE IF length = -2 THEN scriptUInt16(rest)
    ELSE scriptUInt32(rest)

\* The switch on op.length that reads the length prefix from rest.
readLength(length, rest) ==
    IF length = -1 THEN scriptUInt8(rest)
    ELSE IF length = -2 THEN scriptUInt16(rest)
    ELSE IF length = -4 THEN scriptUInt32(rest)
    ELSE [err |-> "InvalidOpcodeLength", l |-> 0]

\* Variant of checkElement without the limit on the element size.
checkElement_noLimit(l, avail) ==
    IF l > avail THEN "ShortScript" ELSE "nil"

\* The two checks of a length l against the avail bytes left for the data.
checkElement(l, avail) ==
    IF l > avail THEN "ShortScript"
    ELSE IF l > MaxScriptElementSize THEN "ElementTooBig"
    ELSE "nil"

\* One pass of the body of parseScript's loop at byte offset i: the parsed
\* opcode and the offset after it, or the error.
parseOne(script, i, opcodes) ==
    LET instr == script[i + 1]
        found == lookupOpcode(opcodes, instr)
        op == found.op
        off == i + 1
        r == readLength(op.length, SliceFrom(script, off))
        doff == i + 1 - op.length
        e == checkElement(r.l, Len(SliceFrom(script, doff)))
        stop(error) == [err |-> error, pop |-> <<>>, i |-> i]
    IN IF ~found.ok THEN stop("InvalidOpcode")
       ELSE IF op.length = 1
       THEN [err |-> "nil",
             pop |-> [value |-> op.value, data |-> <<>>],
             i |-> i + 1]
       ELSE IF op.length > 1
       THEN IF Len(SliceFrom(script, i)) < op.length THEN stop("ShortScript")
            ELSE [err |-> "nil",
                  pop |-> [value |-> op.value,
                           data |-> SubSeq(script, i + 2, i + op.length)],
                  i |-> i + op.length]
       ELSE IF r.err # "nil" THEN stop(r.err)
       ELSE IF e # "nil" THEN stop(e)
       ELSE [err |-> "nil",
             pop |-> [value |-> op.value,
                      data |-> SubSeq(script, doff + 1, doff + r.l)],
             i |-> i + 1 - op.length + r.l]

RECURSIVE parseSpan(_, _, _, _)
\* At most n passes of parseScript's loop from byte offset i: the opcodes
\* parsed and the offset reached, or the error.  The passes are composed
\* by halves, which gives the same result as running them one after the
\* other.
parseSpan(script, i, n, opcodes) ==
    IF i >= Len(script) \/ n = 0
    THEN [err |-> "nil", pops |-> <<>>, i |-> i]
    ELSE IF n = 1
    THEN LET r == parseOne(script, i, opcodes)
         IN IF r.err # "nil" THEN [err |-> r.err, pops |-> <<>>, i |-> i]
            ELSE [err |-> "nil", pops |-> <<r.pop>>, i |-> r.i]
    ELSE LET a == parseSpan(script, i, n \div 2, opcodes)
             b == parseSpan(script, a.i, n - n \div 2, opcodes)
         IN IF a.err # "nil" THEN a
            ELSE IF b.err # "nil" THEN b
            ELSE [err |-> "nil", pops |-> a.pops \o b.pops, i |-> b.i]

\* parseScript with an explicit opcode table: the loop runs until the
\* offset reaches len(script), which takes at most len(script) passes.
parseScriptTemplate(script, opcodes) ==
    LET r == parseSpan(script, 0, Len(script), opcodes)
    IN [err |-> r.err, pops |-> r.pops]

parseScript(script) == parseScriptTemplate(script, opcodemap)

\* ---------------------------------------------------------------- unparser
RECURSIVE littleEndian(_, _)
\* The k-byte little-endian encoding of n.
littleEndian(n, k) ==
    IF k = 0 THEN <<>> ELSE <<n % 256>> \o littleEndian(n \div 256, k - 1)

RECURSIVE fitsIn(_, _)
\* n is less than 256^k.
fitsIn(n, k) == IF k = 0 THEN n = 0 ELSE fitsIn(n \div 256, k - 1)

\* parsedOpcode.bytes: the serialization of one parsed opcode, or
\* InvalidOpcode when the data does not fit the encoded length.
bytes(pop) ==
    LET length == opcodeLength(pop.value)
        bad == [err |-> "InvalidOpcode", bytes |-> <<>>]
    IN IF length = 1
       THEN IF Len(pop.data) # 0 THEN bad
            ELSE [err |-> "nil", bytes |-> <<pop.value>>]
       ELSE IF length > 1
       THEN IF Len(pop.data) # length - 1 THEN bad
            ELSE [err |-> "nil", bytes |-> <<pop.value>> \o pop.data]
       ELSE IF ~fitsIn(Len(pop.data), -length) THEN bad
            ELSE [err |-> "nil",
                  bytes |-> <<pop.value>>
                            \o littleEndian(Len(pop.data), -length)
                            \o pop.data]

RECURSIVE unparseLoop(_, _, _)
unparseLoop(pops, i, script) ==
    IF i > Len(pops) THEN script
    ELSE unparseLoop(pops, i + 1, script \o bytes(pops[i]).bytes)

\* Variant of unparseScript that leaves out the last opcode.
unparseScript_dropLast(pops) ==
    unparseLoop(SubSeq(pops, 1, Len(pops) - 1), 1, <<>>)

\* unparseScript: the bytes of every opcode appended in order.  It has no
\* error result.
unparseScript(pops) == unparseLoop(pops, 1, <<>>)

\* The error unparseScript reports for pops: it returns bytes only.
unparseScriptErr(pops) == "nil"

\* ------------------------------------------------------- opcode removal
RECURSIVE removeFirstLoop(_, _, _, _)
removeFirstLoop(pops, i, retScript, opcode) ==
    IF i > Len(pops) THEN retScript
    ELSE IF pops[i].value = opcode
    THEN retScript \o SubSeq(pops, i + 1, Len(pops))
    ELSE removeFirstLoop(pops, i + 1, Append(retScript, pops[i]), opcode)

\* Variant of removeOpcode that stops after the first match.
removeOpcode_first(pkscript, opcode) ==
    removeFirstLoop(pkscript, 1, <<>>, opcode)

RECURSIVE removeOpcodeLoop(_, _, _, _)
removeOpcodeLoop(pkscript, i, retScript, opcode) ==
    IF i > Len(pkscript) THEN retScript
    ELSE removeOpcodeLoop(pkscript, i + 1,
             IF pkscript[i].value # opcode
             THEN Append(retScript, pkscript[i]) ELSE retScript,
             opcode)

removeOpcode(pkscript, opcode) == removeOpcodeLoop(pkscript, 1, <<>>, opcode)

RECURSIVE removeOpcodeByDataLoop(_, _, _, _)
\* The loop of removeOpcodeByData.
removeOpcodeByDataLoop(pkscript, i, retScript, data) ==
    IF i > Len(pkscript) THEN retScript
    ELSE removeOpcodeByDataLoop(pkscript, i + 1,
             IF ~(pkscript[i].data = data)
             THEN Append(retScript, pkscript[i]) ELSE retScript,
             data)

\* data is a prefix of d.
hasPrefix(d, data) ==
    Len(data) <= Len(d) /\ SubSeq(d, 1, Len(data)) = data

RECURSIVE removePrefixLoop(_, _, _, _)
removePrefixLoop(pkscript, i, retScript, data) ==
    IF i > Len(pkscript) THEN retScript
    ELSE removePrefixLoop(pkscript, i + 1,
             IF ~hasPrefix(pkscript[i].data, data)
             THEN Append(retScript, pkscript[i]) ELSE retScript,
             data)

\* Variant of removeOpcodeByData that drops opcodes whose data starts with
\* data.
removeOpcodeByData_prefix(pkscript, data) ==
    removePrefixLoop(pkscript, 1, <<>>, data)

removeOpcodeByData(pkscript, data) ==
    removeOpcodeByDataLoop(pkscript, 1, <<>>, data)


\* ------------------------------------------------------------------- stack
Depth(stack) == Len(stack)

\* The element i places below the top (i = 0 is the top).
PeekByteArray(stack, i) == stack[Len(stack) - i]

PushByteArray(stack, e) == Append(stack, e)

DropN(stack, n) == SubSeq(stack, 1, Len(stack) - n)

\* False is the empty string or zeros with an optional trailing 0x80.
asBool(e) == \E i \in 1..Len(e) : e[i] # 0 /\ ~(i = Len(e) /\ e[i] = 128)

fromBool(b) == IF b THEN <<1>> ELSE <<>>

\* getStack: array[len-i-1] = the element i below the top, so the last item
\* of the array is the top.
getStack(stack) ==
    [j \in 1..Depth(stack) |-> PeekByteArray(stack, Depth(stack) - j)]

RECURSIVE pushAll(_, _, _)
pushAll(stack, data, i) ==
    IF i > Len(data) THEN stack
    ELSE pushAll(PushByteArray(stack, data[i]), data, i + 1)

\* Variant of setStack that does not drop what the stack holds.
setStack_keep(stack, data) == pushAll(stack, data, 1)

\* setStack: drop everything, then push data[0], data[1], ... in order.
setStack(stack, data) == pushAll(DropN(stack, Depth(stack)), data, 1)

\* GetStack, SetStack, GetAltStack, SetAltStack of the engine m.
GetStack(m) == getStack(m.dstack)
SetStack(m, data) == [m EXCEPT !.dstack = setStack(@, data)]
GetAltStack(m) == getStack(m.astack)
SetAltStack(m, data) == [m EXCEPT !.astack = setStack(@, data)]

\* ------------------------------------------------------- hash primitive
RECURSIVE ByteSum(_)
ByteSum(x) == IF x = <<>> THEN 0 ELSE x[1] + ByteSum(Tail(x))

\* RIPEMD160(SHA256(x)) as an abstract deterministic 20-byte digest.
Hash160(x) == [i \in 1..20 |-> (ByteSum(x) * i + Len(x) * 7 + i) % 256]

\* ---------------------------------------------------------- signature hash
SigHashOld == 0
SigHashAll == 1
SigHashNone == 2
SigHashSingle == 3
SigHashAnyOneCanPay == 128

\* hashType & 31
hashMode(hashType) == hashType % 32

\* hashType & SigHashAnyOneCanPay != 0
anyOneCanPay(hashType) == (hashType \div SigHashAnyOneCanPay) % 2 = 1

\* A signed 64-bit value as eight little-endian bytes; the model has -1 as
\* its only negative value.
int64Bytes(v) == IF v < 0 THEN [i \in 1..8 |-> 255] ELSE littleEndian(v, 8)

RECURSIVE concat(_)
\* The byte strings of bss one after the other.
concat(bss) == IF Len(bss) = 0 THEN <<>> ELSE bss[1] \o concat(Tail(bss))

\* MsgTx.BtcEncode: the wire bytes of tx under protocol version pver.
BtcEncode(tx, pver) ==
    LET encIn(in) == littleEndian(in.PreviousOutpoint, 4)
                     \o <<Len(in.SignatureScript)>> \o in.SignatureScript
                     \o littleEndian(in.Sequence, 4)
        encOut(out) == int64Bytes(out.Value) \o <<Len(out.PkScript)>>
                       \o out.PkScript
    IN littleEndian(pver, 4)
       \o <<Len(tx.TxIn)>>
       \o concat([i \in 1..Len(tx.TxIn) |-> encIn(tx.TxIn[i])])
       \o <<Len(tx.TxOut)>>
       \o concat([j \in 1..Len(tx.TxOut) |-> encOut(tx.TxOut[j])])

\* SHA256(SHA256(x)) as an abstract deterministic 32-byte digest.
DoubleSha256(x) ==
    LET sum == ByteSum(x)
        len == Len(x)
    IN [i \in 1..32 |-> (sum * i + len * 7 + i) % 256]

\* Variant of sequenceFor that keeps every sequence number.
sequenceFor_keep(mode, i, txidx, old) == old

\* The sequence number of input i (0-based) after the switch on the mode.
sequenceFor(mode, i, txidx, old) ==
    IF mode \in {SigHashNone, SigHashSingle} /\ i # txidx THEN 0 ELSE old

\* The outputs after the switch on the mode.  txCopy.TxOut[:txidx+1] is a
\* run-time panic when the copy has fewer than txidx+1 outputs.
outputsFor(mode, txidx, outs) ==
    IF mode = SigHashNone THEN [err |-> "nil", outs |-> <<>>]
    ELSE IF mode = SigHashSingle
    THEN IF txidx + 1 > Len(outs)
         THEN [err |-> "IndexOutOfRange", outs |-> <<>>]
         ELSE [err |-> "nil",
               outs |-> [j \in 1..(txidx + 1) |->
                           IF j - 1 < txidx
                           THEN [Value |-> -1, PkScript |-> <<>>]
                           ELSE outs[j]]]
    ELSE [err |-> "nil", outs |-> outs]

\* Variant of inputsFor that keeps every input.
inputsFor_all(hashType, txidx, ins) == ins

\* The inputs after the AnyOneCanPay cut.
inputsFor(hashType, txidx, ins) ==
    IF anyOneCanPay(hashType) THEN SubSeq(ins, txidx + 1, txidx + 1)
    ELSE ins

\* Variant of signatureScriptFor that leaves the other inputs' scripts.
signatureScriptFor_keepOthers(i, txidx, script, old) ==
    IF i = txidx THEN unparseScript(script) ELSE old

\* The signature script of input i (0-based) of the copy.
signatureScriptFor(i, txidx, script, old) ==
    IF i = txidx THEN unparseScript(script) ELSE <<>>

\* calcScriptHash on the engine fields tx (a deep copy of s.tx), txidx and
\* pver: the transaction that is hashed and its digest, or the panic.
calcScriptHash(script, hashType, tx, txidx, pver) ==
    LET script1 == removeOpcode(script, OP_CODESEPARATOR)
        mode == hashMode(hashType)
        ins == [i \in 1..Len(tx.TxIn) |->
                  [PreviousOutpoint |-> tx.TxIn[i].PreviousOutpoint,
                   SignatureScript |->
                       signatureScriptFor(i - 1, txidx, script1,
                                          tx.TxIn[i].SignatureScript),
                   Sequence |->
                       sequenceFor(mode, i - 1, txidx, tx.TxIn[i].Sequence)]]
        o == outputsFor(mode, txidx, tx.TxOut)
        txCopy == [TxIn |-> inputsFor(hashType, txidx, ins), TxOut |-> o.outs]
    IN IF o.err # "nil"
       THEN [err |-> o.err, txCopy |-> [TxIn |-> <<>>, TxOut |-> <<>>],
             digest |-> <<>>]
       ELSE [err |-> "nil", txCopy |-> txCopy,
             digest |-> DoubleSha256(BtcEncode(txCopy, pver)
                                     \o littleEndian(hashType, 4))]

\* ------------------------------------------------------ opcode executors
Ok(m) == [err |-> "nil", m |-> m]
Fail(e, m) == [err |-> e, m |-> m]

isDisabled(v) ==
    v \in {OP_CAT, OP_SUBSTR, OP_LEFT, OP_RIGHT, OP_INVERT, OP_AND, OP_OR,
           OP_XOR, OP_2MUL, OP_2DIV, OP_MUL, OP_DIV, OP_MOD, OP_LSHIFT,
           OP_RSHIFT}

isReserved(v) ==
    v \in {OP_RESERVED, OP_VER, OP_VERIF, OP_VERNOTIF, OP_RESERVED1,
           OP_RESERVED2}

\* The conditional flag of a descriptor: the IF, NOTIF, ELSE, ENDIF quartet.
conditional(pop) == pop.value \in {OP_IF, OP_NOTIF, OP_ELSE, OP_ENDIF}

pushElement(e, m) ==
    IF Len(e) > MaxScriptElementSize THEN Fail("ElementTooBig", m)
    ELSE Ok([m EXCEPT !.dstack = PushByteArray(@, e)])

opcodeIf(pop, m) ==
    IF m.condStack[1] = OpCondTrue
    THEN IF Depth(m.dstack) < 1 THEN Fail("Underflow", m)
         ELSE LET ok == asBool(PeekByteArray(m.dstack, 0))
                  taken == IF pop.value = OP_NOTIF THEN ~ok ELSE ok
                  cond == IF taken THEN OpCondTrue ELSE OpCondFalse
              IN Ok([m EXCEPT !.dstack = DropN(@, 1),
                              !.condStack = <<cond>> \o @])
    ELSE Ok([m EXCEPT !.condStack = <<OpCondSkip>> \o @])

opcodeElse(pop, m) ==
    IF Len(m.condStack) < 2 THEN Fail("NoIf", m)
    ELSE LET c == m.condStack[1]
             flipped == IF c = OpCondTrue THEN OpCondFalse
                        ELSE IF c = OpCondFalse THEN OpCondTrue
                        ELSE c
         IN Ok([m EXCEPT !.condStack[1] = flipped])

opcodeEndif(pop, m) ==
    IF Len(m.condStack) < 2 THEN Fail("NoIf", m)
    ELSE Ok([m EXCEPT !.condStack = Tail(@)])

opcodeVerify(pop, m) ==
    IF Depth(m.dstack) < 1 THEN Fail("Underflow", m)
    ELSE LET m1 == [m EXCEPT !.dstack = DropN(@, 1)]
         IN IF asBool(PeekByteArray(m.dstack, 0)) THEN Ok(m1)
            ELSE Fail("VerifyFailed", m1)

opcodeToAltStack(pop, m) ==
    IF Depth(m.dstack) < 1 THEN Fail("Underflow", m)
    ELSE Ok([m EXCEPT !.dstack = DropN(@, 1),
                      !.astack = PushByteArray(@, PeekByteArray(m.dstack, 0))])

opcodeFromAltStack(pop, m) ==
    IF Depth(m.astack) < 1 THEN Fail("Underflow", m)
    ELSE Ok([m EXCEPT !.astack = DropN(@, 1),
                      !.dstack = PushByteArray(@, PeekByteArray(m.astack, 0))])

opcodeDrop(pop, m) ==
    IF Depth(m.dstack) < 1 THEN Fail("Underflow", m)
    ELSE Ok([m EXCEPT !.dstack = DropN(@, 1)])

opcodeDup(pop, m) ==
    IF Depth(m.dstack) < 1 THEN Fail("Underflow", m)
    ELSE pushElement(PeekByteArray(m.dstack, 0), m)

opcodeEqual(pop, m) ==
    IF Depth(m.dstack) < 2 THEN Fail("Underflow", m)
    ELSE LET a == PeekByteArray(m.dstack, 0)
             b == PeekByteArray(m.dstack, 1)
         IN Ok([m EXCEPT !.dstack = PushByteArray(DropN(@, 2), fromBool(a = b))])

opcodeHash160(pop, m) ==
    IF Depth(m.dstack) < 1 THEN Fail("Underflow", m)
    ELSE Ok([m EXCEPT !.dstack =
                PushByteArray(DropN(@, 1), Hash160(PeekByteArray(m.dstack, 0)))])

opcodeCodeSeparator(pop, m) == Ok([m EXCEPT !.lastcodesep = m.scriptoff + 1])

\* The executor of the descriptor of pop, applied to the engine m.
opfunc(pop, m) ==
    LET v == pop.value IN
    IF v = OP_0 THEN pushElement(<<>>, m)
    ELSE IF v >= OP_DATA_1 /\ v <= OP_PUSHDATA4 THEN pushElement(pop.data, m)
    ELSE IF v = OP_1NEGATE THEN pushElement(<<129>>, m)
    ELSE IF v >= OP_1 /\ v <= OP_16 THEN pushElement(<<v - (OP_1 - 1)>>, m)
    ELSE IF isReserved(v) THEN Fail("ReservedOpcode", m)
    ELSE IF isDisabled(v) THEN Fail("OpDisabled", m)
    ELSE IF v = OP_NOP THEN Ok(m)
    ELSE IF v = OP_IF \/ v = OP_NOTIF THEN opcodeIf(pop, m)
    ELSE IF v = OP_ELSE THEN opcodeElse(pop, m)
    ELSE IF v = OP_ENDIF THEN opcodeEndif(pop, m)
    ELSE IF v = OP_VERIFY THEN opcodeVerify(pop, m)
    ELSE IF v = OP_RETURN THEN Fail("EarlyReturn", m)
    ELSE IF v = OP_TOALTSTACK THEN opcodeToAltStack(pop, m)
    ELSE IF v = OP_FROMALTSTACK THEN opcodeFromAltStack(pop, m)
    ELSE IF v = OP_DROP THEN opcodeDrop(pop, m)
    ELSE IF v = OP_DUP THEN opcodeDup(pop, m)
    ELSE IF v = OP_EQUAL THEN opcodeEqual(pop, m)
    ELSE IF v = OP_HASH160 THEN opcodeHash160(pop, m)
    ELSE IF v = OP_CODESEPARATOR THEN opcodeCodeSeparator(pop, m)
    ELSE Fail("NotModelled", m)

\* parsedOpcode.exec: count the operation when it is not a push, then run
\* the executor.
exec(pop, m) ==
    IF pop.value > OP_16
    THEN LET m1 == [m EXCEPT !.numOps = @ + 1]
         IN IF m1.numOps > MaxOpsPerScript THEN Fail("TooManyOperations", m1)
            ELSE opfunc(pop, m1)
    ELSE opfunc(pop, m)

\* ---------------------------------------------------------- script shapes
isScriptHash(pops) ==
    /\ Len(pops) = 3
    /\ pops[1].value = OP_HASH160
    /\ pops[2].value = OP_DATA_20
    /\ pops[3].value = OP_EQUAL

\* Variant of isPushOnly that looks at the last opcode only.
isPushOnly_lastOnly(pops) ==
    Len(pops) = 0 \/ ~(pops[Len(pops)].value > OP_16)

isPushOnly(pops) ==
    \A i \in 1..Len(pops) :
        ~(pops[i].value < OP_FALSE \/ pops[i].value > OP_16)

\* ------------------------------------------------------------------ engine
\* The zero value of the Script struct.
ZeroScript ==
    [scripts |-> <<>>, scriptidx |-> 0, scriptoff |-> 0, lastcodesep |-> 0,
     dstack |-> <<>>, astack |-> <<>>, condStack |-> <<>>, numOps |-> 0,
     bip16 |-> FALSE, savedFirstStack |-> <<>>]

\* Variant of initialScriptIdx that skips an empty first script only.
initialScriptIdx_firstOnly(scripts) ==
    IF Len(scripts[1]) = 0 THEN 1 ELSE 0

\* The script index NewScript leaves after its loop over the two scripts:
\* every empty script i sets it to i + 1.
initialScriptIdx(scripts) ==
    LET idx0 == IF Len(scripts[1]) = 0 THEN 1 ELSE 0
    IN IF Len(scripts[2]) = 0 THEN 2 ELSE idx0

\* Variant of initialCondStack with a second mark on the initial mark.
initialCondStack_two == <<OpCondTrue, OpCondTrue>>

\* Variant of initialCondStack without any mark.
initialCondStack_empty == <<>>

\* m.condStack = []int{OpCondTrue}
initialCondStack == <<OpCondTrue>>

NewScript(sigBytes, pkBytes, p2sh) ==
    LET p0 == parseScript(sigBytes)
        p1 == parseScript(pkBytes)
        m == [ZeroScript EXCEPT
                !.scripts = <<p0.pops, p1.pops>>,
                !.scriptidx = initialScriptIdx(<<sigBytes, pkBytes>>),
                !.condStack = initialCondStack]
    IN IF p0.err # "nil" THEN Fail(p0.err, ZeroScript)
       ELSE IF p1.err # "nil" THEN Fail(p1.err, ZeroScript)
       ELSE IF p2sh /\ isScriptHash(p1.pops)
       THEN IF ~isPushOnly(p0.pops) THEN Fail("NonPushOnlyP2SH", ZeroScript)
            ELSE Ok([m EXCEPT !.bip16 = TRUE])
       ELSE Ok(m)

validPC(m) ==
    IF m.scriptidx >= Len(m.scripts) THEN "PastInputScripts"
    ELSE IF m.scriptoff >= Len(m.scripts[m.scriptidx + 1]) THEN "PastInputScripts"
    ELSE "nil"

\* Whether Step calls the executor of opcode.
\* Variant of executeInstr that executes every opcode on every branch.
executeInstr_always(m, opcode) == TRUE

\* Variant of executeInstr that takes a Skip mark for an executing branch.
executeInstr_falseOnly(m, opcode) ==
    IF m.condStack[1] = OpCondFalse THEN conditional(opcode) ELSE TRUE

\* Variant of executeInstr that skips IF, NOTIF, ELSE and ENDIF too on a
\* non-executing branch.
executeInstr_markOnly(m, opcode) == m.condStack[1] = OpCondTrue

executeInstr(m, opcode) ==
    IF m.condStack[1] # OpCondTrue THEN conditional(opcode) ELSE TRUE

\* Variant of p2shStack that leaves the redeem script on the stack.
p2shStack_keepRedeem(m) == setStack(m.dstack, m.savedFirstStack)

\* The data stack the P2SH transition installs: the saved first stack minus
\* the redeem script on its top.
p2shStack(m) ==
    setStack(m.dstack, SubSeq(m.savedFirstStack, 1, Len(m.savedFirstStack) - 1))

\* Variant of nextScript that stays in the script that has just ended.
nextScript_stay(m) ==
    [done |-> FALSE, err |-> "nil", m |-> [m EXCEPT !.lastcodesep = 0]]

\* Variant of nextScript that starts the operation counter of the next
\* script at 0.
nextScript_resetOps(m) ==
    LET m1 == [m EXCEPT !.scriptidx = @ + 1]
        m2 == IF m1.scriptidx < Len(m1.scripts)
                 /\ m1.scriptoff >= Len(m1.scripts[m1.scriptidx + 1])
              THEN [m1 EXCEPT !.scriptidx = @ + 1] ELSE m1
        m3 == [m2 EXCEPT !.lastcodesep = 0, !.numOps = 0]
    IN [done |-> m3.scriptidx >= Len(m3.scripts), err |-> "nil", m |-> m3]

\* Variant of nextScript that keeps the last-codesep offset.
nextScript_keepCodesep(m) ==
    LET m1 == [m EXCEPT !.scriptidx = @ + 1]
        m2 == IF m1.scriptidx < Len(m1.scripts)
                 /\ m1.scriptoff >= Len(m1.scripts[m1.scriptidx + 1])
              THEN [m1 EXCEPT !.scriptidx = @ + 1] ELSE m1
    IN [done |-> m2.scriptidx >= Len(m2.scripts), err |-> "nil", m |-> m2]

\* The tail of Step once a script has ended: move to the next script, skip
\* one zero-length script, reset lastcodesep, report done past the last one.
nextScript(m) ==
    LET m1 == [m EXCEPT !.scriptidx = @ + 1]
        m2 == IF m1.scriptidx < Len(m1.scripts)
                 /\ m1.scriptoff >= Len(m1.scripts[m1.scriptidx + 1])
              THEN [m1 EXCEPT !.scriptidx = @ + 1] ELSE m1
        m3 == [m2 EXCEPT !.lastcodesep = 0]
    IN [done |-> m3.scriptidx >= Len(m3.scripts), err |-> "nil", m |-> m3]

\* Variant of endsSecondScript that holds at the end of every later script.
endsSecondScript_orLater(m) == m.scriptidx >= 1 /\ m.bip16

\* else if m.scriptidx == 1 && m.bip16: the script that has just ended is
\* the public-key script of a P2SH engine.
endsSecondScript(m) == m.scriptidx = 1 /\ m.bip16

\* Step after the opcode has run: advance the offset and handle the end of
\* a script, including the two P2SH hooks.
prepareNext(m0) ==
    LET m == [m0 EXCEPT !.scriptoff = @ + 1] IN
    IF m.scriptoff >= Len(m.scripts[m.scriptidx + 1])
    THEN LET m1 == [m EXCEPT !.scriptoff = 0] IN
         IF m1.scriptidx = 0 /\ m1.bip16
         THEN nextScript([m1 EXCEPT !.savedFirstStack = getStack(m1.dstack)])
         ELSE IF endsSecondScript(m1)
         THEN IF Depth(m1.dstack) < 1
              THEN [done |-> FALSE, err |-> "Underflow", m |-> m1]
              ELSE
                LET v == asBool(PeekByteArray(m1.dstack, 0))
                    m2 == [m1 EXCEPT !.dstack = DropN(@, 1)]
                IN IF ~v THEN [done |-> FALSE, err |-> "ScriptFailed", m |-> m2]
                   ELSE IF Len(m2.savedFirstStack) = 0
                   THEN [done |-> FALSE, err |-> "IndexOutOfRange", m |-> m2]
                   ELSE
                     LET script == m2.savedFirstStack[Len(m2.savedFirstStack)]
                         p == parseScript(script)
                     IN IF p.err # "nil"
                        THEN [done |-> FALSE, err |-> p.err, m |-> m2]
                        ELSE nextScript(
                               [m2 EXCEPT !.scripts = Append(@, p.pops),
                                          !.dstack = p2shStack(m2)])
         ELSE nextScript(m1)
    ELSE [done |-> FALSE, err |-> "nil", m |-> m]

Step(m) ==
    IF validPC(m) # "nil" THEN [done |-> FALSE, err |-> validPC(m), m |-> m]
    ELSE
      LET opcode == m.scripts[m.scriptidx + 1][m.scriptoff + 1]
          r == IF executeInstr(m, opcode) THEN exec(opcode, m) ELSE Ok(m)
      IN IF r.err # "nil" THEN [done |-> FALSE, err |-> r.err, m |-> r.m]
         ELSE prepareNext(r.m)

\* Variant of afterStep that does not look at the error of Step.
afterStep_ignoreErr(stepDone, stepErr) ==
    IF stepDone THEN "end" ELSE "loop"

\* Where Execute goes after one call of Step.
afterStep(stepDone, stepErr) ==
    IF stepErr # "nil" THEN "returned"
    ELSE IF stepDone THEN "end"
    ELSE "loop"

\* Variant of verdict without the check of the conditional stack.
verdict_noEndifCheck(m) ==
    IF Depth(m.dstack) < 1 THEN Fail("StackEmptyAtEnd", m)
    ELSE
      LET v == asBool(PeekByteArray(m.dstack, 0))
          m1 == [m EXCEPT !.dstack = DropN(@, 1)]
      IN Fail(IF v = FALSE THEN "ScriptFailed" ELSE "nil", m1)

\* Variant of verdict that checks the conditional stack first.
verdict_endifFirst(m) ==
    IF Len(m.condStack) # 1 THEN Fail("MissingEndif", m)
    ELSE IF Depth(m.dstack) < 1 THEN Fail("StackEmptyAtEnd", m)
    ELSE
      LET v == asBool(PeekByteArray(m.dstack, 0))
          m1 == [m EXCEPT !.dstack = DropN(@, 1)]
      IN Fail(IF v = FALSE THEN "ScriptFailed" ELSE "nil", m1)

\* The termination checks of Execute once the loop has ended.
verdict(m) ==
    IF Depth(m.dstack) < 1 THEN Fail("StackEmptyAtEnd", m)
    ELSE
      LET v == asBool(PeekByteArray(m.dstack, 0))
          m1 == [m EXCEPT !.dstack = DropN(@, 1)]
          e1 == IF v = FALSE THEN "ScriptFailed" ELSE "nil"
          e2 == IF e1 = "nil" /\ Len(m1.condStack) # 1 THEN "MissingEndif" ELSE e1
      IN Fail(e2, m1)

\* subScript: the opcodes of the current script since the last
\* OP_CODESEPARATOR, s.scripts[s.scriptidx][s.lastcodesep:].
subScript(m) ==
    SubSeq(m.scripts[m.scriptidx + 1], m.lastcodesep + 1,
           Len(m.scripts[m.scriptidx + 1]))

\* ------------------------------------------------------------------ inputs
SeqsUpTo(S, n) == UNION {[1..k -> S] : k \in 0..n}

RECURSIVE Flatten(_)
Flatten(ss) == IF Len(ss) = 0 THEN <<>> ELSE ss[1] \o Flatten(Tail(ss))

\* The instruction that pushes the byte string R.
pushInstr(R) == IF Len(R) = 0 THEN <<OP_0>> ELSE <<Len(R)>> \o R

p2shScript(h) == <<OP_HASH160, OP_DATA_20>> \o h \o <<OP_EQUAL>>

WrongHash == [i \in 1..20 |-> 255]

SigInstrs == {<<OP_0>>, <<OP_1>>, <<OP_NOP>>}

PkInstrs ==
    {<<OP_1>>, <<OP_IF>>, <<OP_NOTIF>>, <<OP_ELSE>>, <<OP_ENDIF>>, <<OP_CAT>>,
     <<OP_VERIF>>, <<OP_VERNOTIF>>, <<OP_RETURN>>}

RedeemBytes == {OP_0, OP_1, OP_DATA_1, OP_IF, OP_ENDIF, OP_DUP}

\* Scripts that do not parse: a truncated OP_DATA_1.
BadScripts == {<<OP_DATA_1>>}

SigPrefixes == {Flatten(ss) : ss \in SeqsUpTo(SigInstrs, MaxSigOps)}

PkScripts == {Flatten(ss) : ss \in SeqsUpTo(PkInstrs, MaxPkOps)}

Redeems == SeqsUpTo(RedeemBytes, MaxRedeemLen)

GeneralInputs ==
    ((SigPrefixes \cup BadScripts) \X (PkScripts \cup BadScripts)) \X BOOLEAN

P2SHInputs ==
    UNION {{<<<<pre \o pushInstr(R), p2shScript(h)>>, f>> :
                pre \in SigPrefixes, h \in {Hash160(R), WrongHash},
                f \in BOOLEAN} : R \in Redeems}
    \cup
    {<<<<pre, p2shScript(h)>>, f>> :
        pre \in SigPrefixes, h \in {Hash160(<<>>), WrongHash}, f \in BOOLEAN}

Inputs == GeneralInputs \cup P2SHInputs

\* ------------------------------------------------------------------- state
VARIABLES
    scriptSig, scriptPubKey, p2shEnabled,  \* the arguments of NewScript
    scripts, scriptidx, scriptoff, lastcodesep, dstack, astack, condStack,
    numOps, bip16, savedFirstStack,        \* the fields of Script
    done, err,                             \* the locals of Execute
    pc,                                    \* "new", "loop", "end", "returned", "noengine"
    steps,                                 \* the calls of Step Execute has made
    call                                   \* a call of a script function, see below

inputVars == <<scriptSig, scriptPubKey, p2shEnabled>>

engineVars ==
    <<scripts, scriptidx, scriptoff, lastcodesep, dstack, astack, condStack,
      numOps, bip16, savedFirstStack>>

vars == <<inputVars, engineVars, done, err, pc, steps, call>>

\* No script function is being called: the engine is what runs.
NoCall == [pc |-> "idle"]

\* The engine as one record.
Engine ==
    [scripts |-> scripts, scriptidx |-> scriptidx, scriptoff |-> scriptoff,
     lastcodesep |-> lastcodesep, dstack |-> dstack, astack |-> astack,
     condStack |-> condStack, numOps |-> numOps, bip16 |-> bip16,
     savedFirstStack |-> savedFirstStack]

SetEngine(m) ==
    /\ scripts' = m.scripts
    /\ scriptidx' = m.scriptidx
    /\ scriptoff' = m.scriptoff
    /\ lastcodesep' = m.lastcodesep
    /\ dstack' = m.dstack
    /\ astack' = m.astack
    /\ condStack' = m.condStack
    /\ numOps' = m.numOps
    /\ bip16' = m.bip16
    /\ savedFirstStack' = m.savedFirstStack

\* No engine has been constructed and no step has been made.
NoEngine ==
    /\ steps = 0
    /\ scripts = ZeroScript.scripts
    /\ scriptidx = ZeroScript.scriptidx
    /\ scriptoff = ZeroScript.scriptoff
    /\ lastcodesep = ZeroScript.lastcodesep
    /\ dstack = ZeroScript.dstack
    /\ astack = ZeroScript.astack
    /\ condStack = ZeroScript.condStack
    /\ numOps = ZeroScript.numOps
    /\ bip16 = ZeroScript.bip16
    /\ savedFirstStack = ZeroScript.savedFirstStack
    /\ done = FALSE
    /\ err = "nil"
    /\ pc = "new"

\* The state before NewScript is called with arguments drawn from S.
InitWith(S) ==
    /\ \E in \in S :
         /\ scriptSig = in[1][1]
         /\ scriptPubKey = in[1][2]
         /\ p2shEnabled = in[2]
    /\ call = NoCall
    /\ NoEngine

Init == InitWith(Inputs)

\* NewScript(scriptSig, scriptPubKey, ..., bip16): the engine or an error.
Construct ==
    /\ pc = "new"
    /\ LET r == NewScript(scriptSig, scriptPubKey, p2shEnabled)
       IN /\ SetEngine(r.m)
          /\ err' = r.err
          /\ pc' = IF r.err = "nil" THEN "loop" ELSE "noengine"
    /\ UNCHANGED <<inputVars, done, steps, call>>

\* One iteration of the loop of Execute: done, err = s.Step().
ExecuteStep ==
    /\ pc = "loop"
    /\ LET r == Step(Engine)
       IN /\ SetEngine(r.m)
          /\ done' = r.done
          /\ err' = r.err
          /\ pc' = afterStep(r.done, r.err)
    /\ steps' = steps + 1
    /\ UNCHANGED <<inputVars, call>>

\* The rest of Execute after the loop: the verdict.
ExecuteReturn ==
    /\ pc = "end"
    /\ LET r == verdict(Engine)
       IN /\ SetEngine(r.m)
          /\ err' = r.err
          /\ pc' = "returned"
    /\ UNCHANGED <<inputVars, done, steps, call>>

Next == Construct \/ ExecuteStep \/ ExecuteReturn

Spec == Init /\ [][Next]_vars

\* ------------------------------------------- calls of the script functions
\* Bounds of the scripts and opcode lists the functions are called with.
MaxCallOps == 2
MaxBuiltPops == 2

Zeros(n) == [i \in 1..n |-> 0]

\* Instruction encodings, complete and truncated.
CallInstrs ==
    { <<OP_0>>, <<OP_1>>, <<OP_DUP>>, <<OP_CODESEPARATOR>>,
      <<OP_DATA_1, OP_CODESEPARATOR>>, <<OP_DATA_2, 1, 2>>,
      <<OP_PUSHDATA1, 0>>, <<OP_PUSHDATA1, 1, 7>>,
      <<OP_PUSHDATA2, 0, 0>>, <<OP_PUSHDATA2, 1, 0, 7>>,
      <<OP_PUSHDATA4, 0, 0, 0, 0>>, <<OP_PUSHDATA4, 1, 0, 0, 0, 7>>,
      <<OP_DATA_2, 1>>, <<OP_PUSHDATA1>>, <<OP_PUSHDATA1, 2, 7>>,
      <<OP_PUSHDATA2, 1>>, <<OP_PUSHDATA4, 1, 0, 0>> }

\* Pushes at and just above the element size limit, with all or all but one
\* of their data bytes.
LongScripts ==
    UNION { { <<OP_PUSHDATA2>> \o littleEndian(L, 2) \o Zeros(k),
              <<OP_PUSHDATA4>> \o littleEndian(L, 4) \o Zeros(k) }
            : L, k \in { MaxScriptElementSize - 1, MaxScriptElementSize,
                         MaxScriptElementSize + 1 } }

CallScripts ==
    { Flatten(ss) : ss \in SeqsUpTo(CallInstrs, MaxCallOps) } \cup LongScripts

\* The opcode tables parseScriptTemplate is called with.
Table(name) ==
    IF name = "negativeLength"
    THEN [opcodemap EXCEPT ![OP_PUSHDATA4].length = -8]
    ELSE IF name = "missingEntry"
    THEN [b \in Byte \ {OP_PUSHDATA4} |-> opcodemap[b]]
    ELSE opcodemap

TemplateScripts ==
    { <<OP_PUSHDATA4, 1, 0, 0, 0, 0, 0, 0, 0>>,
      <<OP_PUSHDATA4, 1, 0, 0, 0, 0, 0, 0, 0, 7>>,
      <<OP_PUSHDATA4, 0, 0, 0, 0>>,
      <<OP_1, OP_PUSHDATA4, 1, 0, 0, 0, 7>>,
      <<OP_1, OP_DUP>> }

\* Parsed opcodes built directly, with data of every small length.
BuiltPopSet ==
    { [value |-> v, data |-> d] :
        v \in { OP_0, OP_DATA_1, OP_DATA_2, OP_PUSHDATA1, OP_PUSHDATA2,
                OP_PUSHDATA4, OP_NOP, OP_CODESEPARATOR },
        d \in { <<>>, <<7>>, <<7, 8>>, <<7, 8, 9>> } }
    \cup { [value |-> OP_PUSHDATA1, data |-> Zeros(n)] : n \in {255, 256} }

RemoveOps == { OP_CODESEPARATOR, OP_1, OP_DATA_1 }
RemoveData == { <<>>, <<7>>, <<OP_CODESEPARATOR>>, <<1, 2>> }

\* A call record: script and table are the arguments of the parser, pops
\* the current opcode list, orig the list before a removal, out the bytes
\* of the last serialization, err the last error, via the step before the
\* last serialization, n the number of removals of op applied.
CallRec(at, script, table, pops) ==
    [pc |-> at, via |-> "none", script |-> script, table |-> table,
     pops |-> pops, orig |-> <<>>, err |-> "nil", out |-> <<>>,
     op |-> 0, data |-> <<>>, n |-> 0]

CallInputs ==
    { CallRec("start", sc, "standard", <<>>) : sc \in CallScripts }
    \cup { CallRec("start", sc, t, <<>>) :
             sc \in TemplateScripts, t \in {"negativeLength", "missingEntry"} }
    \cup { CallRec("built", <<>>, "standard", ps) :
             ps \in SeqsUpTo(BuiltPopSet, MaxBuiltPops) }

InitCalls ==
    /\ scriptSig = <<>>
    /\ scriptPubKey = <<>>
    /\ p2shEnabled = FALSE
    /\ NoEngine
    /\ call \in CallInputs

\* pops, err := parseScriptTemplate(script, table)
CallParse ==
    /\ call.pc = "start"
    /\ LET r == parseScriptTemplate(call.script, Table(call.table))
       IN call' = [call EXCEPT !.pc = IF r.err = "nil" THEN "parsed"
                                       ELSE "failed",
                               !.pops = r.pops,
                               !.err = r.err]
    /\ UNCHANGED <<inputVars, engineVars, done, err, pc, steps>>

\* out := unparseScript(pops)
CallUnparse ==
    /\ call.pc \in {"parsed", "built", "removed", "removedData"}
    /\ call' = [call EXCEPT !.pc = "unparsed",
                            !.via = call.pc,
                            !.out = unparseScript(call.pops),
                            !.err = unparseScriptErr(call.pops)]
    /\ UNCHANGED <<inputVars, engineVars, done, err, pc, steps>>

\* pops = removeOpcode(pops, op), once and once again on the result
CallRemoveOpcode ==
    /\ \/ call.pc = "parsed"
       \/ call.pc = "removed" /\ call.n < 2
    /\ \E x \in RemoveOps :
         /\ call.pc = "removed" => x = call.op
         /\ call' = [call EXCEPT !.pc = "removed",
                                 !.op = x,
                                 !.n = call.n + 1,
                                 !.orig = IF call.pc = "parsed" THEN call.pops
                                          ELSE call.orig,
                                 !.pops = removeOpcode(call.pops, x)]
    /\ UNCHANGED <<inputVars, engineVars, done, err, pc, steps>>

\* pops = removeOpcodeByData(pops, data)
CallRemoveOpcodeByData ==
    /\ call.pc = "parsed"
    /\ \E d \in RemoveData :
         call' = [call EXCEPT !.pc = "removedData",
                              !.data = d,
                              !.orig = call.pops,
                              !.pops = removeOpcodeByData(call.pops, d)]
    /\ UNCHANGED <<inputVars, engineVars, done, err, pc, steps>>

NextCalls ==
    CallParse \/ CallUnparse \/ CallRemoveOpcode \/ CallRemoveOpcodeByData

SpecCalls == InitCalls /\ [][NextCalls]_vars

\* ------------------------------------------- runs with many operations
\* The scripts hold from MaxOpsPerScript - OpsMargin to
\* MaxOpsPerScript + OpsMargin counted opcodes; SkippedOps opcodes stand on
\* a branch that is not executed.
OpsMargin == 2
SkippedOps == 3

Nops(n) == [i \in 1..n |-> OP_NOP]

OpsCounts == (MaxOpsPerScript - OpsMargin)..(MaxOpsPerScript + OpsMargin)

\* Half of the first count above the limit.
HalfOps == (MaxOpsPerScript + 1) \div 2

OpsSigScripts == { <<>>, Nops(1), Nops(HalfOps) }

OpsPkScripts ==
    { <<OP_1>> \o Nops(n) : n \in OpsCounts \cup {HalfOps} }
    \cup { <<OP_1, OP_1>> \o Nops(n) \o <<OP_DUP>> : n \in OpsCounts }
    \cup { <<OP_0, OP_IF>> \o Nops(SkippedOps) \o <<OP_ENDIF, OP_1>>
               \o Nops(n - 2) : n \in OpsCounts }

OpsInputs == (OpsSigScripts \X OpsPkScripts) \X BOOLEAN

SpecOps == InitWith(OpsInputs) /\ [][Next]_vars

\* ------------------------------------- engines on a shared transaction
\* Bounds of the transaction, of the Steps the engines make together and
\* of the writes of the caller.
MaxTxIn == 2
MaxTxOut == 2
MaxEngineSteps == 1
MaxWrites == 1

\* The protocol version the engines are built with.
TxPver == 1

\* Input i and output j of the caller's transaction before any call.
TxInAt(i) ==
    [PreviousOutpoint |-> 40 + i, SignatureScript |-> <<OP_DATA_1, i>>,
     Sequence |-> 10 + i]
TxOutAt(j) == [Value |-> 100 + j, PkScript |-> <<OP_1, OP_DATA_1, j>>]

\* The scripts whose hash is asked for and the hash types.
HashScripts ==
    { <<[value |-> OP_CODESEPARATOR, data |-> <<>>],
        [value |-> OP_DATA_1, data |-> <<OP_CODESEPARATOR>>],
        [value |-> OP_CODESEPARATOR, data |-> <<>>],
        [value |-> OP_DUP, data |-> <<>>]>> }

HashTypes ==
    { SigHashOld, SigHashAll, SigHashNone, SigHashSingle, 4,
      SigHashAnyOneCanPay + SigHashAll, SigHashAnyOneCanPay + SigHashNone,
      SigHashAnyOneCanPay + SigHashSingle, SigHashAnyOneCanPay + 4 }

\* The values the caller writes into its transaction after construction.
Written == [Sequence |-> 99, SignatureScript |-> <<OP_1>>, Value |-> 77]

NoHash ==
    [by |-> 0, script |-> <<>>, hashType |-> 0,
     tx |-> [TxIn |-> <<>>, TxOut |-> <<>>], txidx |-> 0, pver |-> 0,
     err |-> "nil", txCopy |-> [TxIn |-> <<>>, TxOut |-> <<>>],
     digest |-> <<>>]

\* The transaction a MsgTx of pointers t stands for in c: the TxIn and
\* TxOut objects its pointers lead to.
txValue(c, t) ==
    [TxIn |-> [i \in 1..Len(t.TxIn) |-> c.ins[t.TxIn[i]]],
     TxOut |-> [j \in 1..Len(t.TxOut) |-> c.outs[t.TxOut[j]]]]

\* for i := range tx.TxIn { tx.TxIn[i].SignatureScript = []byte{} }: the
\* TxIn objects after the loop.
blankSignatureScripts(c, t) ==
    [a \in 1..Len(c.ins) |->
        IF \E i \in 1..Len(t.TxIn) : t.TxIn[i] = a
        THEN [c.ins[a] EXCEPT !.SignatureScript = <<>>]
        ELSE c.ins[a]]

\* m.tx = *tx: the struct is copied, so the engine's TxIn and TxOut slices
\* hold the caller's pointers.
storedTx(t) == [TxIn |-> t.TxIn, TxOut |-> t.TxOut]

\* Variant of receiverHash that takes the program counter for the version.
receiverHash_pcAsVersion(c, e, script, hashType) ==
    calcScriptHash(script, hashType, txValue(c, c.engines[e].tx),
                   c.engines[e].txidx,
                   c.engines[e].pver + c.engines[e].m.scriptoff)

\* s.calcScriptHash(script, hashType) on engine e of c.
receiverHash(c, e, script, hashType) ==
    calcScriptHash(script, hashType, txValue(c, c.engines[e].tx),
                   c.engines[e].txidx, c.engines[e].pver)

\* The record of the calls on a transaction with nIn inputs and nOut
\* outputs: ins and outs are the TxIn and TxOut objects, tx the caller's
\* MsgTx (pointers into them), before the transaction before any call,
\* engines the engines built so far, writes the number of writes of the
\* caller, hash the last calcScriptHash call with the fields it read.
TxRec(nIn, nOut) ==
    LET t == [TxIn |-> [i \in 1..nIn |-> i], TxOut |-> [j \in 1..nOut |-> j]]
    IN [pc |-> "tx",
        ins |-> [i \in 1..nIn |-> TxInAt(i)],
        outs |-> [j \in 1..nOut |-> TxOutAt(j)],
        tx |-> t,
        before |-> [TxIn |-> [i \in 1..nIn |-> TxInAt(i)],
                    TxOut |-> [j \in 1..nOut |-> TxOutAt(j)]],
        engines |-> <<>>,
        writes |-> 0,
        hash |-> NoHash]

InitTx ==
    /\ scriptSig = <<OP_1, OP_1>>
    /\ scriptPubKey = <<OP_0, OP_IF, OP_DUP, OP_ENDIF>>
    /\ p2shEnabled = FALSE
    /\ NoEngine
    /\ \E nIn \in 1..MaxTxIn, nOut \in 0..MaxTxOut : call = TxRec(nIn, nOut)

\* The Steps made by all engines.
RECURSIVE stepsOf(_)
stepsOf(engines) ==
    IF Len(engines) = 0 THEN 0 ELSE engines[1].steps + stepsOf(Tail(engines))

\* NewScript(scriptSig, scriptPubKey, txidx, tx, pver, bip16) by the caller,
\* who builds the engines of the inputs in the order of the inputs.
TxNewScript ==
    /\ call.pc = "tx"
    /\ \E txidx \in 0..(Len(call.tx.TxIn) - 1) :
         LET r == NewScript(scriptSig, scriptPubKey, p2shEnabled)
         IN /\ \A e \in 1..Len(call.engines) : call.engines[e].txidx < txidx
            /\ call' =
                 IF r.err # "nil" THEN call
                 ELSE [call EXCEPT
                         !.ins = blankSignatureScripts(call, call.tx),
                         !.engines = Append(@, [m |-> r.m,
                                                tx |-> storedTx(call.tx),
                                                txidx |-> txidx,
                                                pver |-> TxPver,
                                                steps |-> 0])]
    /\ UNCHANGED <<inputVars, engineVars, done, err, pc, steps>>

\* Step() on engine e; once an engine has been asked for a hash it is the
\* one that goes on.
TxStepOn(e) ==
    /\ stepsOf(call.engines) < MaxEngineSteps
    /\ call.pc = "hashed" => e = call.hash.by
    /\ LET r == Step(call.engines[e].m)
       IN call' = [call EXCEPT !.engines[e].m = r.m,
                               !.engines[e].steps = @ + 1]
    /\ UNCHANGED <<inputVars, engineVars, done, err, pc, steps>>

TxStep == \E e \in 1..Len(call.engines) : TxStepOn(e)

\* A write of the caller to its transaction after an engine was built: to
\* the sequence number or the signature script of the last input, or to the
\* value of the last output.
TxCallerWrite ==
    /\ call.pc = "tx"
    /\ Len(call.engines) > 0
    /\ call.writes < MaxWrites
    /\ LET i == Len(call.tx.TxIn)
           j == Len(call.tx.TxOut)
       IN \/ call' = [call EXCEPT
                        !.ins[call.tx.TxIn[i]].Sequence = Written.Sequence,
                        !.writes = @ + 1]
          \/ call' = [call EXCEPT
                        !.ins[call.tx.TxIn[i]].SignatureScript = Written.SignatureScript,
                        !.writes = @ + 1]
          \/ /\ j > 0
             /\ call' = [call EXCEPT
                           !.outs[call.tx.TxOut[j]].Value = Written.Value,
                           !.writes = @ + 1]
    /\ UNCHANGED <<inputVars, engineVars, done, err, pc, steps>>

\* s.calcScriptHash(script, hashType) on engine e; a call that follows
\* another one, with Steps in between or not, is made on the same engine
\* and asks for the same script and hash type.
TxCalcScriptHashOn(e) ==
    /\ \E script \in HashScripts, hashType \in HashTypes :
         /\ call.pc = "hashed" =>
              /\ e = call.hash.by
              /\ script = call.hash.script
              /\ hashType = call.hash.hashType
         /\ LET r == receiverHash(call, e, script, hashType)
            IN call' = [call EXCEPT
                          !.pc = "hashed",
                          !.hash = [by |-> e, script |-> script,
                                    hashType |-> hashType,
                                    tx |-> txValue(call, call.engines[e].tx),
                                    txidx |-> call.engines[e].txidx,
                                    pver |-> call.engines[e].pver,
                                    err |-> r.err, txCopy |-> r.txCopy,
                                    digest |-> r.digest]]
    /\ UNCHANGED <<inputVars, engineVars, done, err, pc, steps>>

TxCalcScriptHash == \E e \in 1..Len(call.engines) : TxCalcScriptHashOn(e)

NextTx == TxNewScript \/ TxStep \/ TxCallerWrite \/ TxCalcScriptHash

SpecTx == InitTx /\ [][NextTx]_vars

\* ------------------------------------------------------------ properties
\* The opcode Step is about to fetch (defined when the counter is valid).
curOpcode == scripts[scriptidx + 1][scriptoff + 1]

atOpcode == pc = "loop" /\ validPC(Engine) = "nil"

\* C1: if Execute returns success then the loop ended with done and no
\* error, the program counter was past the last script (two scripts, three
\* in P2SH mode), the data stack held at least one element whose top was
\* true, and the conditional stack was exactly the initial mark.
C1_SuccessMeans ==
    [][(pc' = "returned" /\ err' = "nil") =>
          /\ pc = "end" /\ done /\ err = "nil"
          /\ scriptidx >= Len(scripts)
          /\ Len(scripts) = (IF bip16 THEN 3 ELSE 2)
          /\ Depth(dstack) >= 1
          /\ asBool(PeekByteArray(dstack, 0))
          /\ condStack = <<OpCondTrue>>]_vars

C1_Witness == pc = "returned" /\ err = "nil" /\ done /\ ~bip16

\* C2: an engine built from a non-empty signature script and an empty
\* public-key script executes the signature script; with sigScript = 51 and
\* an empty pkScript Execute returns success.
C2_TrueLiteral ==
    /\ (pc = "loop" /\ numOps = 0 /\ dstack = <<>> /\ Len(scriptSig) > 0
          /\ scriptPubKey = <<>>) => scriptidx = 0
    /\ (pc = "returned" /\ scriptSig = <<OP_1>> /\ scriptPubKey = <<>>)
          => err = "nil"

\* C3: when every instruction ran without error and the top of the data
\* stack at the end is false, Execute returns ScriptFailed; sigScript = 00
\* with an empty pkScript returns ScriptFailed.
C3_FalseLiteral ==
    /\ [][(pc = "end" /\ Depth(dstack) >= 1
             /\ ~asBool(PeekByteArray(dstack, 0))) => err' = "ScriptFailed"]_vars
    /\ []((pc = "returned" /\ scriptSig = <<OP_0>> /\ scriptPubKey = <<>>)
             => err = "ScriptFailed")

\* C4 as stated: with both scripts empty Execute fails with the empty-stack
\* error of the termination check.
C4_EmptyStackError ==
    (pc = "returned" /\ scriptSig = <<>> /\ scriptPubKey = <<>>)
        => err = "StackEmptyAtEnd"

\* C4 amended: with both scripts empty NewScript leaves the script index at
\* 2, past both scripts, and Execute fails in its first Step with the
\* invalid-program-counter error of validPC; the termination check is never
\* reached and the engine is left as constructed.
C4_InvalidPCError ==
    (pc \in {"loop", "end", "returned"} /\ scriptSig = <<>> /\ scriptPubKey = <<>>)
        => /\ scriptidx = 2 /\ scriptoff = 0
           /\ dstack = <<>> /\ condStack = <<OpCondTrue>>
           /\ pc # "end" /\ ~done
           /\ pc = "returned" => err = "PastInputScripts"

C4_Witness ==
    /\ pc = "returned" /\ scriptSig = <<>> /\ scriptPubKey = <<>>
    /\ err = "PastInputScripts"

C6_DisabledAlwaysFails ==
    /\ [][(atOpcode /\ isDisabled(curOpcode.value))
             => (pc' = "returned" /\ err' = "OpDisabled")]_vars
    /\ []((pc = "returned" /\ scriptSig = <<OP_0>>
             /\ scriptPubKey = <<OP_IF, OP_CAT, OP_ENDIF>>)
             => err = "OpDisabled")

\* C7: OP_VERIF and OP_VERNOTIF make Execute fail with ReservedOpcode even
\* when the innermost conditional mark is False or Skip.
C7_VerifAlwaysFails ==
    [][(atOpcode /\ curOpcode.value \in {OP_VERIF, OP_VERNOTIF}
          /\ condStack[1] \in {OpCondFalse, OpCondSkip})
          => (pc' = "returned" /\ err' = "ReservedOpcode")]_vars

\* The bytes HASH160, OP_DATA_20, twenty bytes, EQUAL.
isP2SHBytes(script) ==
    /\ Len(script) = 23
    /\ script[1] = OP_HASH160
    /\ script[2] = OP_DATA_20
    /\ script[23] = OP_EQUAL

\* C8: NewScript fails when the P2SH flag is set, the pkScript is HASH160
\* <20 bytes> EQUAL and the sigScript has an opcode above OP_16; in every
\* other case where both scripts parse it succeeds, and the engine is in
\* P2SH mode iff the flag is set and the pkScript has that shape.
C8_P2SHGating ==
    LET sig == parseScript(scriptSig)
        pk == parseScript(scriptPubKey)
        gated == p2shEnabled /\ isP2SHBytes(scriptPubKey)
        nonPush == \E i \in 1..Len(sig.pops) : sig.pops[i].value > OP_16
    IN (pc # "new" /\ sig.err = "nil" /\ pk.err = "nil") =>
          IF gated /\ nonPush
          THEN pc = "noengine" /\ err = "NonPushOnlyP2SH"
          ELSE pc # "noengine" /\ (bip16 <=> gated)

C8_Witness ==
    /\ pc = "noengine" /\ err = "NonPushOnlyP2SH"
    /\ p2shEnabled /\ isP2SHBytes(scriptPubKey)

RECURSIVE runOps(_, _, _)
\* The opcodes pops[i..] run in order on the engine m, with no program
\* counter: the result of the first failure or of the last opcode.
runOps(pops, i, m) ==
    IF i > Len(pops) THEN Ok(m)
    ELSE LET r == IF executeInstr(m, pops[i]) THEN exec(pops[i], m) ELSE Ok(m)
         IN IF r.err # "nil" THEN r ELSE runOps(pops, i + 1, r.m)

\* The outcome of running sigScript, pkScript and then the redeem script R
\* (the top element the sigScript leaves) on the sigScript's stack minus R.
redeemRun ==
    LET s0 == runOps(parseScript(scriptSig).pops, 1,
                     [ZeroScript EXCEPT !.condStack = <<OpCondTrue>>])
        s1 == runOps(parseScript(scriptPubKey).pops, 1, s0.m)
        R == PeekByteArray(s0.m.dstack, 0)
        p == parseScript(R)
        s2 == runOps(p.pops, 1, [s1.m EXCEPT !.dstack = DropN(s0.m.dstack, 1)])
    IN [R |-> R,
        ok |-> /\ p.err = "nil"
               /\ s2.err = "nil"
               /\ Depth(s2.m.dstack) >= 1
               /\ asBool(PeekByteArray(s2.m.dstack, 0))
               /\ s2.m.condStack = <<OpCondTrue>>]

\* A P2SH spend: the flag is set, the sigScript is push-only and its last
\* push R hashes to the hash in the pkScript.
isRedemption ==
    LET sig == parseScript(scriptSig) IN
    /\ p2shEnabled
    /\ sig.err = "nil" /\ Len(sig.pops) > 0
    /\ \A i \in 1..Len(sig.pops) : sig.pops[i].value <= OP_16
    /\ scriptPubKey = p2shScript(Hash160(redeemRun.R))

\* C9: in a P2SH spend Execute succeeds iff running R as a third script on
\* the stack the sigScript left minus R ends without error with a true top
\* element and balanced conditionals.
C9_P2SHRedemption ==
    (pc = "returned" /\ isRedemption) => (err = "nil" <=> redeemRun.ok)

C9_Witness ==
    /\ pc = "returned" /\ isRedemption /\ err = "nil"
    /\ bip16 /\ Len(scripts) = 3 /\ Len(scripts[3]) > 0

\* C10: Execute returns the error of the first Step that fails and takes no
\* Step after it; sigScript = 51, pkScript = 6a returns EarlyReturn.
C10_ErrorsAbort ==
    /\ [][err = "nil"]_vars
    /\ [][(pc = "loop" /\ err' # "nil") => pc' = "returned"]_vars
    /\ []((pc = "returned" /\ scriptSig = <<OP_1>> /\ scriptPubKey = <<OP_RETURN>>)
             => (err = "EarlyReturn" /\ ~done /\ dstack = <<<<1>>>>))

C10_Witness ==
    /\ pc = "returned" /\ err = "EarlyReturn"
    /\ scriptSig = <<OP_1>> /\ scriptPubKey = <<OP_RETURN>>

RECURSIVE sumLens(_)
sumLens(ss) == IF Len(ss) = 0 THEN 0 ELSE Len(ss[1]) + sumLens(Tail(ss))

\* The parsed opcodes of all the scripts of the engine.
totalOpcodes == sumLens(scripts)

\* (scriptidx, scriptoff) before the step is below the pair after it.
pcIncreases ==
    \/ scriptidx' > scriptidx
    \/ scriptidx' = scriptidx /\ scriptoff' > scriptoff

\* NewScript or Execute has returned.  Before that pc names the action
\* that is taken next, and each of them is defined on every engine.
terminated == pc \in {"returned", "noengine"}

\* C11 as stated: Execute terminates (it is never stuck before it returns,
\* every successful Step strictly increases (script index, opcode offset))
\* and the number of Steps is at most the number of parsed opcodes of the
\* two or three scripts.
C11_StepsWithinOpcodes ==
    /\ [][(pc = "loop" /\ err' = "nil") => pcIncreases]_vars
    /\ [](pc \in {"loop", "end", "returned"} => steps <= totalOpcodes)
    /\ [](~terminated => pc \in {"new", "loop", "end"})

\* C11 amended: Execute terminates (it is never stuck before it returns,
\* every successful Step strictly increases (script index, opcode offset)
\* and the counter stays within the scripts), and the number of Steps is at
\* most the number of parsed opcodes of the two or three scripts, except
\* that with no opcode at all (both scripts empty) Execute still makes one
\* Step, which fails validPC.
C11_Terminates ==
    /\ [][(pc = "loop" /\ err' = "nil") => pcIncreases]_vars
    /\ [](pc \in {"loop", "end", "returned"} =>
            steps <= (IF totalOpcodes = 0 THEN 1 ELSE totalOpcodes))
    /\ [](pc = "returned" => steps >= 1)
    /\ [](pc = "loop" => (scriptidx <= Len(scripts) /\ Len(scripts) <= 3))
    /\ [](~terminated => pc \in {"new", "loop", "end"})

C11_Witness ==
    /\ pc = "returned" /\ err = "nil" /\ bip16
    /\ Len(scripts) = 3 /\ steps = totalOpcodes /\ steps > 3

\* ------------------------------------------------------------------- C12
\* C12: for every byte string S that parseScript accepts,
\* unparseScript(parseScript(S)) equals S byte for byte.
C12_RoundTrip ==
    (call.pc = "unparsed" /\ call.via = "parsed" /\ call.table = "standard")
        => call.out = call.script

\* A two-instruction script starting with a two-byte length prefix has been
\* parsed and serialized again.
C12_Witness ==
    /\ call.pc = "unparsed"
    /\ call.via = "parsed"
    /\ call.table = "standard"
    /\ Len(call.pops) = 2
    /\ call.script[1] = OP_PUSHDATA2
    /\ Len(call.pops[1].data) = 1

\* ------------------------------------------------------------------- C13
\* The data length of pop meets the encoded length of its opcode.
meetsLength(pop) ==
    LET length == opcodeLength(pop.value)
    IN IF length = 1 THEN Len(pop.data) = 0
       ELSE IF length > 1 THEN Len(pop.data) = length - 1
       ELSE fitsIn(Len(pop.data), -length)

\* C13: serializing a parsed opcode fails with InvalidOpcode exactly when
\* its data length violates the encoded length of its opcode (empty data for
\* length 1, exactly n bytes for OP_DATA_n, a length that fits the K-byte
\* prefix for PUSHDATA1/2/4), and serializing a script fails if any of its
\* opcodes fails.
C13_UnparseWellFormed ==
    call.pc = "unparsed" =>
        /\ \A i \in 1..Len(call.pops) :
             (bytes(call.pops[i]).err = "InvalidOpcode")
                 <=> ~meetsLength(call.pops[i])
        /\ (\E i \in 1..Len(call.pops) : ~meetsLength(call.pops[i]))
               => call.err = "InvalidOpcode"

\* ------------------------------------------------------------------- C14
\* The script of the call starts with a length-prefixed opcode.
startsWithPushData ==
    /\ call.pc \in {"parsed", "failed"}
    /\ call.table = "standard"
    /\ Len(call.script) > 0
    /\ call.script[1] \in {OP_PUSHDATA1, OP_PUSHDATA2, OP_PUSHDATA4}

\* The width K of the length prefix of the first opcode.
prefixWidth == -opcodeLength(call.script[1])

\* The script holds the whole K-byte prefix of its first opcode.
hasPrefixBytes == Len(call.script) >= 1 + prefixWidth

RECURSIVE littleEndianValue(_)
littleEndianValue(bs) ==
    IF Len(bs) = 0 THEN 0
    ELSE IF Len(bs) = 4 /\ bs[4] >= 128 THEN MaxInt
    ELSE bs[1] + 256 * littleEndianValue(Tail(bs))

\* The length L the prefix of the first opcode encodes.
prefixValue == littleEndianValue(SubSeq(call.script, 2, 1 + prefixWidth))

\* The script holds the prefix and the L data bytes of its first opcode.
isComplete ==
    hasPrefixBytes /\ Len(call.script) - 1 - prefixWidth >= prefixValue

\* C14: a length-prefixed opcode whose K-byte prefix or L data bytes are
\* not all in the script makes parseScript fail with ShortScript; one that
\* is complete with L <= 520 is emitted with exactly its L data bytes and
\* parsing goes on 1+K+L bytes further, also when L = 0 and the
\* instruction is the last one of the script.
C14_LengthPrefixed ==
    startsWithPushData =>
        /\ ~isComplete => call.err = "ShortScript"
        /\ (isComplete /\ prefixValue <= MaxScriptElementSize) =>
             LET K == prefixWidth
                 L == prefixValue
                 rest == parseScript(SliceFrom(call.script, 1 + K + L))
             IN /\ call.err = rest.err
                /\ call.err = "nil" =>
                     call.pops =
                         <<[value |-> call.script[1],
                            data |-> SubSeq(call.script, 2 + K, 1 + K + L)]>>
                         \o rest.pops

\* ------------------------------------------------------------------- C15
\* The data of pop has the length that encoded length `length` allows at
\* parse time.
parsedLengthOk(pop, length) ==
    IF length = 1 THEN Len(pop.data) = 0
    ELSE IF length > 1 THEN Len(pop.data) = length - 1
    ELSE Len(pop.data) <= MaxScriptElementSize

\* The script of the call starts with OP_DATA_n and has fewer than n bytes
\* after it.
truncatedImmediate ==
    /\ Len(call.script) > 0
    /\ call.script[1] >= OP_DATA_1
    /\ call.script[1] <= OP_DATA_75
    /\ Len(call.script) < 1 + call.script[1]

\* C15: every parsed opcode parseScript emits has empty data for encoded
\* length 1, exactly N-1 bytes for encoded length N > 1 and at most 520
\* bytes for a length-prefixed opcode; a truncated fixed-length immediate is
\* rejected with ShortScript and a length prefix L > 520 with all L bytes
\* present with ElementTooBig.
C15_DataLengthInvariant ==
    (call.pc \in {"parsed", "failed"} /\ call.table = "standard") =>
        /\ call.pc = "parsed" =>
             \A i \in 1..Len(call.pops) :
                 parsedLengthOk(call.pops[i], opcodeLength(call.pops[i].value))
        /\ truncatedImmediate => call.err = "ShortScript"
        /\ (startsWithPushData /\ isComplete
              /\ prefixValue > MaxScriptElementSize)
               => call.err = "ElementTooBig"

\* A two-byte-prefixed push of 521 bytes with all its bytes present has been
\* rejected.
C15_Witness ==
    /\ call.pc = "failed"
    /\ call.err = "ElementTooBig"
    /\ call.script[1] = OP_PUSHDATA2
    /\ Len(call.script) = 3 + MaxScriptElementSize + 1

\* ------------------------------------------------------------------- C16
\* Byte b stands at an opcode boundary among the first two opcodes of the
\* script of the call.
usesOpcode(b) ==
    /\ Len(call.script) > 0
    /\ \/ call.script[1] = b
       \/ /\ opcodeLength(call.script[1]) = 1
          /\ Len(call.script) > 1
          /\ call.script[2] = b

\* C16: parsing with a malformed opcode table returns an error and no
\* parsed script: an opcode byte without a table entry is rejected with
\* InvalidOpcode, and an entry of negative encoded length other than -1, -2
\* and -4 (here -8) is rejected, even if the bytes would form a complete
\* instruction.
C16_MalformedTable ==
    (call.pc \in {"parsed", "failed"} /\ usesOpcode(OP_PUSHDATA4)) =>
        /\ call.table = "missingEntry" =>
             (call.pc = "failed" /\ call.err = "InvalidOpcode"
                /\ call.pops = <<>>)
        /\ call.table = "negativeLength" =>
             (call.pc = "failed" /\ call.err = "InvalidOpcodeLength"
                /\ call.pops = <<>>)

\* An opcode with table length -8, eight prefix bytes encoding 1 and one
\* data byte has been rejected.
C16_Witness ==
    /\ call.pc = "failed"
    /\ call.table = "negativeLength"
    /\ call.script = <<OP_PUSHDATA4, 1, 0, 0, 0, 0, 0, 0, 0, 7>>
    /\ call.err = "InvalidOpcodeLength"

\* ------------------------------------------------------------------- C17
RECURSIVE withoutValue(_, _)
\* The opcodes of pops whose value is not x, in their order.
withoutValue(pops, x) ==
    IF Len(pops) = 0 THEN <<>>
    ELSE IF pops[1].value = x THEN withoutValue(Tail(pops), x)
    ELSE <<pops[1]>> \o withoutValue(Tail(pops), x)

RECURSIVE serializedLength(_, _)
\* The number of bytes the opcodes pops[i..] serialize to.
serializedLength(pops, i) ==
    IF i > Len(pops) THEN 0
    ELSE Len(bytes(pops[i]).bytes) + serializedLength(pops, i + 1)

RECURSIVE boundaries(_, _, _)
\* The positions at which the opcodes pops[i..] begin in their
\* serialization, the first of them at off + 1.
boundaries(pops, i, off) ==
    IF i > Len(pops) THEN {}
    ELSE {off + 1}
         \cup boundaries(pops, i + 1, off + Len(bytes(pops[i]).bytes))

\* C17: removeOpcode(script, X) returns the opcodes of script whose value
\* is not X in their original order, the reserialized result has no byte X
\* at a position where an opcode begins, and applying removeOpcode a second
\* time with the same X changes nothing.
C17_RemoveOpcode ==
    /\ [](call.pc = "removed" =>
            /\ call.pops = withoutValue(call.orig, call.op)
            /\ \A i \in 1..Len(call.pops) : call.pops[i].value # call.op)
    /\ []((call.pc = "unparsed" /\ call.via = "removed") =>
            /\ Len(call.out) = serializedLength(call.pops, 1)
            /\ \A p \in boundaries(call.pops, 1, 0) :
                 call.out[p] # call.op)
    /\ [][(call.pc = "removed" /\ call'.pc = "removed")
             => call'.pops = call.pops]_vars

\* OP_CODESEPARATOR has been removed twice from a two-opcode script that
\* began with it, and the result serialized.
C17_Witness ==
    /\ call.pc = "unparsed"
    /\ call.via = "removed"
    /\ call.n = 2
    /\ call.op = OP_CODESEPARATOR
    /\ Len(call.orig) = 2
    /\ call.orig[1].value = OP_CODESEPARATOR
    /\ Len(call.pops) < Len(call.orig)

\* ------------------------------------------------------------------- C18
RECURSIVE withOtherData(_, _)
\* The opcodes of pops whose data is not byte-equal to d, in their order.
withOtherData(pops, d) ==
    IF Len(pops) = 0 THEN <<>>
    ELSE IF pops[1].data = d THEN withOtherData(Tail(pops), d)
    ELSE <<pops[1]>> \o withOtherData(Tail(pops), d)

\* C18: removeOpcodeByData(script, D) never removes an opcode whose data
\* differs from D: the opcodes of the input whose data is not byte-equal to
\* D are all in the output, in their original relative order.
C18_RemoveByDataKeeps ==
    call.pc = "removedData" =>
        withOtherData(call.pops, call.data)
            = withOtherData(call.orig, call.data)

\* A push of D has been removed from a script that also holds an opcode
\* with other data.
C18_Witness ==
    /\ call.pc = "removedData"
    /\ call.data = <<7>>
    /\ Len(call.orig) = 2
    /\ Len(call.pops) = 1
    /\ call.pops[1].data # call.data

\* ------------------------------------------------------------------- C19
\* The opcode at the program counter is executed by the next Step: the
\* branch is executing or the opcode is one of IF, NOTIF, ELSE, ENDIF.
isExecuted ==
    \/ condStack[1] = OpCondTrue
    \/ curOpcode.value \in {OP_IF, OP_NOTIF, OP_ELSE, OP_ENDIF}

\* What the next Step adds to the operation counter.
opsCounted == IF isExecuted /\ curOpcode.value > OP_16 THEN 1 ELSE 0

\* C19: every executed opcode with value above OP_16 adds one to the
\* operation counter, and opcodes skipped on a non-executing branch and
\* opcodes with value <= OP_16 add nothing; as soon as the counter exceeds
\* 201 Execute returns TooManyOperations, and neither the opcode that made
\* it exceed nor any later one is executed.
C19_OpCountCeiling ==
    /\ [][(pc = "loop" /\ validPC(Engine) = "nil") =>
             /\ numOps' = numOps + opsCounted
             /\ numOps' > MaxOpsPerScript =>
                  /\ pc' = "returned"
                  /\ err' = "TooManyOperations"
                  /\ <<dstack, astack, condStack, scriptidx, scriptoff>>' =
                         <<dstack, astack, condStack, scriptidx, scriptoff>>
          ]_vars
    /\ [](numOps <= MaxOpsPerScript + 1)
    /\ [](numOps > MaxOpsPerScript =>
             (pc = "returned" /\ err = "TooManyOperations"))

\* Execute has returned TooManyOperations at the 202nd counted opcode of a
\* public key script that began with two pushes and has an OP_DUP left to
\* read.
C19_Witness ==
    /\ pc = "returned"
    /\ err = "TooManyOperations"
    /\ numOps = MaxOpsPerScript + 1
    /\ scriptidx = 1
    /\ scriptoff + 2 = Len(scripts[2])
    /\ scripts[2][Len(scripts[2])].value = OP_DUP
    /\ Len(dstack) = 2

\* ------------------------------------------------------------------- C20
\* The number of opcodes of script with value above OP_16.
nonPushCount(script) ==
    Cardinality({i \in 1..Len(script) : script[i].value > OP_16})

\* C20: an execution fails with TooManyOperations only if one of its
\* scripts by itself holds, and executes, more than 201 non-push opcodes;
\* the count of an earlier script does not add to that of a later one.
C20_PerScriptCount ==
    err = "TooManyOperations" =>
        \E k \in 1..Len(scripts) : nonPushCount(scripts[k]) > MaxOpsPerScript

\* ------------------------------------------------------------------- C21
\* call is a record of calls on a transaction.
onTx == call.pc \in {"tx", "hashed"}

\* C21: NewScript does not modify the caller's transaction: after
\* construction, and before the caller writes anything, every input still
\* has its signature script and sequence number and the outputs are what
\* they were before the call.
C21_CallerTxUnchanged ==
    (onTx /\ Len(call.engines) > 0 /\ call.writes = 0) =>
        txValue(call, call.tx) = call.before

\* ------------------------------------------------------------------- C22
\* The digests engine e computes for every script and hash type.
hashesOf(c, e) ==
    [script \in HashScripts, hashType \in HashTypes |->
        receiverHash(c, e, script, hashType).digest]

\* C22: engines share no mutable state: a step that is the construction of
\* another engine, a Step of or a hash call on another engine, or a write
\* of the caller to the original transaction changes neither the stacks
\* and program counter nor the sighash results of the first engine.
C22_NoSharedState ==
    [][(/\ onTx
        /\ Len(call.engines) > 0
        /\ \/ TxNewScript
           \/ TxCallerWrite
           \/ \E e \in 2..Len(call.engines) :
                TxStepOn(e) \/ TxCalcScriptHashOn(e))
       => /\ call'.engines[1].m = call.engines[1].m
          /\ hashesOf(call', 1) = hashesOf(call, 1)]_vars

hashedMode(mode) == call.pc = "hashed" /\ hashMode(call.hash.hashType) = mode

\* Input idx of the transaction that was hashed: the only one after the
\* AnyOneCanPay cut.
hashedIdx ==
    IF anyOneCanPay(call.hash.hashType) THEN 0 ELSE call.hash.txidx

\* In the hashed transaction every input other than idx has sequence number
\* 0 and input idx has the sequence number it has in the engine's
\* transaction.
othersSequenceZero ==
    LET h == call.hash
    IN /\ hashedIdx + 1 \in 1..Len(h.txCopy.TxIn)
       /\ \A i \in 1..Len(h.txCopy.TxIn) :
            h.txCopy.TxIn[i].Sequence =
                IF i = hashedIdx + 1 THEN h.tx.TxIn[h.txidx + 1].Sequence
                ELSE 0

\* C24: for hash type Single and every input index idx, calcScriptHash
\* hashes a transaction with exactly idx+1 outputs, where every output
\* j < idx has value -1 and an empty pkScript and output idx is the original
\* one, and where every input other than idx has sequence number 0 while
\* input idx keeps its own.
C24_SingleOutputs ==
    hashedMode(SigHashSingle) =>
        LET h == call.hash
        IN /\ h.err = "nil"
           /\ Len(h.txCopy.TxOut) = h.txidx + 1
           /\ \A j \in 1..h.txidx :
                h.txCopy.TxOut[j] = [Value |-> -1, PkScript |-> <<>>]
           /\ h.txCopy.TxOut[h.txidx + 1] = h.tx.TxOut[h.txidx + 1]
           /\ othersSequenceZero

\* C25: for hash type None calcScriptHash hashes a transaction without
\* outputs in which every input other than idx has sequence number 0 and
\* input idx keeps its sequence number.
C25_NoneOutputs ==
    hashedMode(SigHashNone) =>
        /\ call.hash.err = "nil"
        /\ call.hash.txCopy.TxOut = <<>>
        /\ othersSequenceZero

C25_Witness ==
    /\ hashedMode(SigHashNone)
    /\ ~anyOneCanPay(call.hash.hashType)
    /\ Len(call.hash.tx.TxOut) > 0
    /\ Len(call.hash.txCopy.TxIn) = 2
    /\ call.hash.txidx = 1
    /\ call.hash.tx.TxIn[1].Sequence # 0
    /\ call.hash.txCopy.TxIn[1].Sequence = 0
    /\ call.hash.txCopy.TxIn[2].Sequence = call.hash.tx.TxIn[2].Sequence

\* The serialization of the subscript the last call asked for, with every
\* OP_CODESEPARATOR removed.
hashedSubscript == unparseScript(removeOpcode(call.hash.script, OP_CODESEPARATOR))

\* C26: when calcScriptHash hashes a transaction and the AnyOneCanPay bit of
\* the hash type is set, that transaction has exactly one input, the
\* engine's input idx with the subscript bytes as its signature script,
\* whatever the base mode; when the bit is clear it has as many inputs as
\* the engine's transaction, in the same order.
C26_AnyOneCanPayInputs ==
    (call.pc = "hashed" /\ call.hash.err = "nil") =>
        LET h == call.hash
            own == h.tx.TxIn[h.txidx + 1]
        IN IF anyOneCanPay(h.hashType)
           THEN h.txCopy.TxIn =
                    <<[PreviousOutpoint |-> own.PreviousOutpoint,
                       SignatureScript |-> hashedSubscript,
                       Sequence |-> own.Sequence]>>
           ELSE /\ Len(h.txCopy.TxIn) = Len(h.tx.TxIn)
                /\ \A i \in 1..Len(h.tx.TxIn) :
                     h.txCopy.TxIn[i].PreviousOutpoint =
                         h.tx.TxIn[i].PreviousOutpoint

C26_Witness ==
    /\ call.pc = "hashed" /\ call.hash.err = "nil"
    /\ anyOneCanPay(call.hash.hashType)
    /\ hashMode(call.hash.hashType) = SigHashSingle
    /\ Len(call.hash.tx.TxIn) = 2
    /\ call.hash.txidx = 1
    /\ Len(call.hash.txCopy.TxIn) = 1
    /\ call.hash.txCopy.TxIn[1].PreviousOutpoint = 42

\* C27: in the transaction calcScriptHash hashes, for every hash type, the
\* signature script of input idx is the serialization of the subscript
\* without its OP_CODESEPARATORs and the signature script of every other
\* input is empty; when the low five bits of the hash type are neither None
\* nor Single, the outputs and the sequence numbers are those of the
\* engine's transaction.
C27_SubscriptAndDefaults ==
    (call.pc = "hashed" /\ call.hash.err = "nil") =>
        LET h == call.hash
            \* position in the engine's transaction of input i of the copy
            orig(i) == IF anyOneCanPay(h.hashType) THEN h.txidx + 1 ELSE i
        IN /\ \A i \in 1..Len(h.txCopy.TxIn) :
                h.txCopy.TxIn[i].SignatureScript =
                    IF i = hashedIdx + 1 THEN hashedSubscript ELSE <<>>
           /\ hashedSubscript = <<OP_DATA_1, OP_CODESEPARATOR, OP_DUP>>
           /\ hashMode(h.hashType) \notin {SigHashNone, SigHashSingle} =>
                /\ h.txCopy.TxOut = h.tx.TxOut
                /\ \A i \in 1..Len(h.txCopy.TxIn) :
                     h.txCopy.TxIn[i].Sequence = h.tx.TxIn[orig(i)].Sequence

C27_Witness ==
    /\ call.pc = "hashed" /\ call.hash.err = "nil"
    /\ call.hash.hashType = 4
    /\ Len(call.hash.tx.TxIn) = 2
    /\ Len(call.hash.tx.TxOut) = 2
    /\ call.hash.txidx = 0
    /\ call.hash.tx.TxIn[2].SignatureScript # <<>>
    /\ call.hash.txCopy.TxIn[2].SignatureScript = <<>>
    /\ call.hash.txCopy.TxIn[2].Sequence = 12

\* -------------------------------------------- calls of the stack accessors
\* Most items in an array handed to SetStack or SetAltStack.
MaxStackDepth == 2
\* Most accessor calls made on one engine.
MaxStackCalls == 2

\* The items of the arrays and the arrays handed to the setters.
StackItems == {<<>>, <<1>>}

StackArrays ==
    UNION {[1..n -> StackItems] : n \in 0..MaxStackDepth}

\* The record of the accessor calls on the engine m: got is the array the
\* last getter returned, last the last call, calls the number of calls.
StackRec(m) ==
    [pc |-> "stack", m |-> m, got |-> <<>>,
     last |-> [op |-> "none", arg |-> <<>>], calls |-> 0]

InitStack ==
    /\ scriptSig = <<OP_1, OP_0>>
    /\ scriptPubKey = <<OP_TOALTSTACK, OP_1>>
    /\ p2shEnabled = FALSE
    /\ NoEngine
    /\ call = StackRec(NewScript(scriptSig, scriptPubKey, p2shEnabled).m)

\* Step() before the first accessor call, while the scripts last.
StackStep ==
    /\ call.pc = "stack"
    /\ call.calls = 0
    /\ LET r == Step(call.m)
       IN /\ r.err = "nil"
          /\ call' = [call EXCEPT !.m = r.m]
    /\ UNCHANGED <<inputVars, engineVars, done, err, pc, steps>>

StackGetStack ==
    /\ call.pc = "stack"
    /\ call.calls < MaxStackCalls
    /\ call' = [call EXCEPT !.got = GetStack(call.m),
                            !.last = [op |-> "GetStack", arg |-> <<>>],
                            !.calls = @ + 1]
    /\ UNCHANGED <<inputVars, engineVars, done, err, pc, steps>>

StackGetAltStack ==
    /\ call.pc = "stack"
    /\ call.calls < MaxStackCalls
    /\ call' = [call EXCEPT !.got = GetAltStack(call.m),
                            !.last = [op |-> "GetAltStack", arg |-> <<>>],
                            !.calls = @ + 1]
    /\ UNCHANGED <<inputVars, engineVars, done, err, pc, steps>>

\* SetStack(data) with an array of the caller or with the array the last
\* getter returned.
StackSetStack ==
    /\ call.pc = "stack"
    /\ call.calls < MaxStackCalls
    /\ \E data \in StackArrays \cup {call.got} :
         call' = [call EXCEPT !.m = SetStack(call.m, data),
                              !.last = [op |-> "SetStack", arg |-> data],
                              !.calls = @ + 1]
    /\ UNCHANGED <<inputVars, engineVars, done, err, pc, steps>>

StackSetAltStack ==
    /\ call.pc = "stack"
    /\ call.calls < MaxStackCalls
    /\ \E data \in StackArrays \cup {call.got} :
         call' = [call EXCEPT !.m = SetAltStack(call.m, data),
                              !.last = [op |-> "SetAltStack", arg |-> data],
                              !.calls = @ + 1]
    /\ UNCHANGED <<inputVars, engineVars, done, err, pc, steps>>

NextStack ==
    \/ StackStep
    \/ StackGetStack
    \/ StackGetAltStack
    \/ StackSetStack
    \/ StackSetAltStack

SpecStack == InitStack /\ [][NextStack]_vars

\* The array is the stack bottom-up: its last item is the top, its first
\* the bottom.
bottomUp(array, stack) ==
    /\ Len(array) = Depth(stack)
    /\ \A i \in 0..(Depth(stack) - 1) :
         array[Len(array) - i] = PeekByteArray(stack, i)

\* C28: GetStack returns the data stack bottom-up, its last item the top,
\* and changes nothing; after SetStack(d) the data stack holds exactly the
\* items of d with d's last item on top, so that a GetStack would return d,
\* and the alt stack is what it was; SetStack(GetStack()) leaves the data
\* stack as it was. The same holds of GetAltStack and SetAltStack with the
\* two stacks exchanged.
C28_StackAccessors ==
    [][call.pc = "stack" =>
        /\ StackGetStack =>
             /\ bottomUp(call'.got, call.m.dstack)
             /\ call'.m = call.m
        /\ StackGetAltStack =>
             /\ bottomUp(call'.got, call.m.astack)
             /\ call'.m = call.m
        /\ StackSetStack =>
             /\ bottomUp(call'.last.arg, call'.m.dstack)
             /\ GetStack(call'.m) = call'.last.arg
             /\ call'.m.astack = call.m.astack
             /\ call'.last.arg = GetStack(call.m) => call'.m = call.m
        /\ StackSetAltStack =>
             /\ bottomUp(call'.last.arg, call'.m.astack)
             /\ GetAltStack(call'.m) = call'.last.arg
             /\ call'.m.dstack = call.m.dstack
             /\ call'.last.arg = GetAltStack(call.m) => call'.m = call.m]_vars

C28_Witness ==
    /\ call.pc = "stack"
    /\ call.last = [op |-> "SetStack", arg |-> <<<<1>>, <<1>>>>]
    /\ call.got = <<<<1>>, <<1>>>>
    /\ call.m.dstack = <<<<1>>, <<1>>>>
    /\ call.m.astack = <<<<>>>>

\* ------------------------------------------------------------------- C29
\* C29: Step invokes the executor of the opcode at the program counter
\* exactly when the innermost conditional mark is True or the opcode is one
\* of IF, NOTIF, ELSE, ENDIF. When the opcode is not executed the Step
\* succeeds, leaves the data stack, the alt stack, the conditional stack and
\* the operation counter as they were, moves the program counter to the
\* next opcode, and leaves the last-codesep offset alone unless it enters
\* the next script. When it is executed, the error, the operation counter,
\* the conditional stack and the alt stack after the Step are those the
\* executor produced.
C29_ExecuteGate ==
    [][(atOpcode /\ ExecuteStep) =>
         IF ~isExecuted
         THEN /\ err' = "nil"
              /\ dstack' = dstack
              /\ astack' = astack
              /\ condStack' = condStack
              /\ numOps' = numOps
              /\ scripts' = scripts
              /\ IF scriptoff + 1 < Len(scripts[scriptidx + 1])
                 THEN /\ scriptidx' = scriptidx
                      /\ scriptoff' = scriptoff + 1
                      /\ lastcodesep' = lastcodesep
                 ELSE /\ scriptidx' > scriptidx
                      /\ scriptoff' = 0
         ELSE LET r == exec(curOpcode, Engine)
              IN /\ r.err # "nil" => err' = r.err
                 /\ numOps' = r.m.numOps
                 /\ condStack' = r.m.condStack
                 /\ astack' = r.m.astack
                 /\ (r.err # "nil" \/ ~bip16) => dstack' = r.m.dstack]_vars

\* An opcode other than IF, NOTIF, ELSE, ENDIF has just been passed on a
\* non-executing branch.
C29_Witness ==
    /\ pc = "loop"
    /\ scriptidx = 1
    /\ scriptoff = 2
    /\ condStack[1] = OpCondFalse
    /\ scripts[2][1].value = OP_IF
    /\ scripts[2][2].value = OP_1
    /\ dstack = <<>>
    /\ numOps = 1

\* ------------------------------------------------- runs of nested branches
\* Most opcodes after the opening OP_IF of a generated public-key script.
MaxCondOps == 5

CondInstrs == {OP_IF, OP_NOTIF, OP_ELSE, OP_ENDIF, OP_1}

CondSigScripts == {<<OP_0>>, <<OP_1>>}

CondPkScripts == {<<OP_IF>> \o body : body \in SeqsUpTo(CondInstrs, MaxCondOps)}

CondInputs == (CondSigScripts \X CondPkScripts) \X {FALSE}

SpecCond == InitWith(CondInputs) /\ [][Next]_vars

\* ------------------------------------------------------------------- C30
\* Every mark held inside a non-executing branch is Skip: a mark whose
\* enclosing mark is False or Skip is Skip.
nestedAreSkip ==
    \A k \in 1..(Len(condStack) - 1) :
        condStack[k + 1] # OpCondTrue => condStack[k] = OpCondSkip

\* C30: nested conditionals under a non-executing branch never execute. An
\* OP_IF or OP_NOTIF reached while the innermost mark is False or Skip pushes
\* Skip and leaves the data stack alone; OP_ELSE leaves a Skip mark as it is;
\* every mark nested in a False or Skip mark is Skip, so that an opcode other
\* than IF, NOTIF, ELSE, ENDIF between the nested IF and its ENDIF changes
\* neither stack nor the operation counter; and the marks below the
\* innermost one are only uncovered by OP_ENDIF, which removes the innermost
\* mark alone, so that after the matching ENDIF the enclosing mark is what
\* it was before the nested IF.
C30_NestedSkip ==
    /\ [](pc \in {"loop", "end"} => nestedAreSkip)
    /\ [][(atOpcode /\ ExecuteStep) =>
            LET v == curOpcode.value
                top == condStack[1]
            IN /\ (v \in {OP_IF, OP_NOTIF} /\ top # OpCondTrue) =>
                    /\ err' = "nil"
                    /\ condStack' = <<OpCondSkip>> \o condStack
                    /\ dstack' = dstack
               /\ (v = OP_ELSE /\ top = OpCondSkip) =>
                    (err' = "nil" /\ condStack' = condStack)
               /\ (top = OpCondSkip /\ ~conditional(curOpcode)) =>
                    /\ err' = "nil"
                    /\ dstack' = dstack /\ astack' = astack
                    /\ numOps' = numOps /\ condStack' = condStack
               /\ (v \in {OP_IF, OP_NOTIF} /\ err' = "nil") =>
                    Tail(condStack') = condStack
               /\ (v = OP_ELSE /\ err' = "nil") =>
                    /\ Len(condStack') = Len(condStack)
                    /\ Tail(condStack') = Tail(condStack)
               /\ (v = OP_ENDIF /\ err' = "nil") =>
                    condStack' = Tail(condStack)]_vars

\* The run of 00 / 63 63 51 67 51 68 has passed the ENDIF of the nested IF:
\* nothing was pushed in either arm and the enclosing mark is False again.
C30_Witness ==
    /\ pc = "end"
    /\ scriptSig = <<OP_0>>
    /\ scriptPubKey = <<OP_IF, OP_IF, OP_1, OP_ELSE, OP_1, OP_ENDIF>>
    /\ condStack = <<OpCondFalse, OpCondTrue>>
    /\ dstack = <<>>
    /\ numOps = 4

\* ------------------------------------------------------------------- C31
\* The OP_IFs and OP_NOTIFs minus the OP_ENDIFs among the first n opcodes
\* of script.
opensIn(script, n) ==
    Cardinality({i \in 1..n : script[i].value \in {OP_IF, OP_NOTIF}})
        - Cardinality({i \in 1..n : script[i].value = OP_ENDIF})

\* The conditionals opened and not yet closed by the opcodes before the
\* program counter: those of the first k scripts and of the current one up
\* to the offset.
RECURSIVE opensUpTo(_)
opensUpTo(k) ==
    IF k = 0 THEN 0
    ELSE opensIn(scripts[k], Len(scripts[k])) + opensUpTo(k - 1)

openBefore ==
    opensUpTo(scriptidx)
        + (IF scriptidx < Len(scripts)
           THEN opensIn(scripts[scriptidx + 1], scriptoff) ELSE 0)

\* C31: an OP_ELSE or OP_ENDIF that is reached when no OP_IF or OP_NOTIF is
\* open finds only the initial mark on the conditional stack, makes Step
\* fail with NoIf (Execute returns it) and leaves the conditional stack as
\* it was.
C31_NoIf ==
    [][(/\ atOpcode
        /\ ExecuteStep
        /\ curOpcode.value \in {OP_ELSE, OP_ENDIF}
        /\ openBefore = 0)
       => /\ condStack = <<OpCondTrue>>
          /\ err' = "NoIf"
          /\ pc' = "returned"
          /\ condStack' = condStack]_vars

C31_Witness ==
    /\ pc = "returned"
    /\ err = "NoIf"
    /\ validPC(Engine) = "nil"
    /\ curOpcode.value = OP_ENDIF
    /\ scriptidx = 1 /\ scriptoff = 2
    /\ scripts[2][1].value = OP_IF
    /\ scripts[2][2].value = OP_ENDIF
    /\ condStack = <<OpCondTrue>>

\* ------------------------------------------------------------------- C32
\* An engine exists: NewScript has returned one.
hasEngine == pc \in {"loop", "end"} \/ (pc = "returned" /\ Len(scripts) >= 2)

\* C32: in every state of an engine the conditional stack is not empty, its
\* outermost mark is the True mark of the construction, and it holds one
\* mark more than there are conditionals left open by the opcodes stepped
\* through; so the innermost mark that Step reads is always defined.
C32_CondStackNeverEmpty ==
    hasEngine =>
        /\ Len(condStack) >= 1
        /\ condStack[Len(condStack)] = OpCondTrue
        /\ (pc = "loop" /\ err = "nil") => Len(condStack) = 1 + openBefore

\* An OP_ENDIF has just closed the only open conditional and more opcodes
\* follow.
C32_Witness ==
    /\ pc = "loop"
    /\ steps >= 3
    /\ validPC(Engine) = "nil"
    /\ condStack = <<OpCondTrue>>
    /\ scripts[scriptidx + 1][scriptoff].value = OP_ENDIF
    /\ curOpcode.value = OP_ENDIF

\* ------------------------------------- runs after a SetStack of the caller
\* The redeem scripts: empty, 51, 00, a truncated push, and one of the
\* shape HASH160 <20 bytes> EQUAL that pays to the hash of the element 51.
ShapedRedeem == p2shScript(Hash160(<<OP_1>>))

SetRedeems == {<<>>, <<OP_1>>, <<OP_0>>, <<OP_DATA_1>>, ShapedRedeem}

SetSigScripts ==
    {<<>>} \cup {pushInstr(R) : R \in SetRedeems}
        \cup {pushInstr(<<OP_1>>) \o pushInstr(ShapedRedeem),
              <<OP_0>> \o pushInstr(<<OP_1>>)}

SetPkScripts ==
    {p2shScript(Hash160(R)) : R \in SetRedeems}
        \cup {p2shScript(WrongHash), <<OP_1>>, <<OP_DUP>>}

SetInputs == (SetSigScripts \X SetPkScripts) \X BOOLEAN

\* The arrays the caller hands to SetStack.
SetArrays ==
    {<<>>} \cup {<<R>> : R \in SetRedeems} \cup {<<<<OP_1>>, ShapedRedeem>>}

\* SetStack(data) by the caller between NewScript and Execute.
CallerSetStack ==
    /\ pc = "loop"
    /\ steps = 0
    /\ \E data \in SetArrays :
         /\ data # GetStack(Engine)
         /\ SetEngine(SetStack(Engine, data))
    /\ UNCHANGED <<inputVars, done, err, pc, steps, call>>

NextSet == Construct \/ CallerSetStack \/ ExecuteStep \/ ExecuteReturn

SpecSet == InitWith(SetInputs) /\ [][NextSet]_vars

\* ------------------------------------------------------------------- C39
\* The engine after the opcode at the program counter has been run or
\* skipped, before Step prepares the next instruction.
afterOpcode ==
    IF executeInstr(Engine, curOpcode) THEN exec(curOpcode, Engine)
    ELSE Ok(Engine)

\* The Step about to be taken finishes the script at index idx: its opcode
\* is the last one of that script and raises no error.
finishesScript(idx) ==
    /\ atOpcode
    /\ scriptidx = idx
    /\ scriptoff + 1 = Len(scripts[idx + 1])
    /\ afterOpcode.err = "nil"

\* The Step about to be taken performs the P2SH transition: it finishes
\* script index 1 in P2SH mode with a true element on top of the stack.
atTransition ==
    /\ bip16
    /\ finishesScript(1)
    /\ Depth(afterOpcode.m.dstack) >= 1
    /\ asBool(PeekByteArray(afterOpcode.m.dstack, 0))

\* C39: whenever Step performs the P2SH transition the saved snapshot of
\* the first stack is not empty, so that taking its last element as the
\* redeem script is defined.
C39_SnapshotNonEmpty ==
    [][(atTransition /\ ExecuteStep)
          => (Len(savedFirstStack) > 0 /\ err' # "IndexOutOfRange")]_vars

\* ------------------------------------------------------------------- C33
\* C33: in P2SH mode the Step that finishes script index 0 saves a snapshot
\* of the data stack; the Step that finishes script index 1 pops the top as
\* a boolean and fails with ScriptFailed if it is false, otherwise parses
\* the top element of the snapshot as script index 2, returns the parse
\* error if there is one, replaces the data stack with the snapshot minus
\* that element and continues at script index 2, offset 0; outside P2SH
\* mode no Step saves a snapshot, adds a script or replaces the stack.
C33_P2SHTransition ==
    [][(atOpcode /\ ExecuteStep) =>
        LET r == afterOpcode
            top == PeekByteArray(r.m.dstack, 0)
            redeem == savedFirstStack[Len(savedFirstStack)]
        IN /\ (bip16 /\ finishesScript(0)) =>
                /\ err' = "nil"
                /\ savedFirstStack' = GetStack(r.m)
                /\ dstack' = r.m.dstack
           /\ (bip16 /\ finishesScript(1) /\ Depth(r.m.dstack) >= 1) =>
                IF ~asBool(top) THEN err' = "ScriptFailed"
                ELSE /\ Len(savedFirstStack) > 0
                     /\ IF parseScript(redeem).err # "nil"
                        THEN err' = parseScript(redeem).err
                        ELSE /\ err' = "nil"
                             /\ scripts' = Append(scripts, parseScript(redeem).pops)
                             /\ dstack' = SubSeq(savedFirstStack, 1,
                                                 Len(savedFirstStack) - 1)
                             /\ scriptidx' = 2
                             /\ scriptoff' = 0
           /\ ~bip16 =>
                /\ savedFirstStack' = savedFirstStack
                /\ scripts' = scripts
                /\ r.err = "nil" => dstack' = r.m.dstack]_vars

\* ------------------------------------------------------------------- C34
\* C34: the engine holds exactly two parsed scripts after construction and
\* at most three ever. A third script is appended only by the Step that
\* performs the P2SH transition at the end of script index 1, never outside
\* P2SH mode and at most once: once there are three scripts no Step changes
\* them, also when the redeem script itself has the shape
\* HASH160 <20 bytes> EQUAL.
C34_AtMostThreeScripts ==
    /\ [](hasEngine =>
            /\ Len(scripts) \in {2, 3}
            /\ Len(scripts) = 3 => bip16)
    /\ [][(pc = "new" /\ pc' = "loop") => Len(scripts') = 2]_vars
    /\ [][(hasEngine /\ scripts' # scripts) =>
            /\ ExecuteStep
            /\ atTransition
            /\ Len(scripts) = 2
            /\ scripts' = Append(scripts, parseScript(
                              savedFirstStack[Len(savedFirstStack)]).pops)]_vars

\* A run whose redeem script has the shape HASH160 <20 bytes> EQUAL has
\* ended with success, with three scripts.
C34_Witness ==
    /\ pc = "returned"
    /\ err = "nil"
    /\ bip16
    /\ Len(scripts) = 3
    /\ isScriptHash(scripts[3])
    /\ scriptidx = 3

\* --------------------------------------------- runs with code separators
\* Most instructions in a generated script with code separators.
MaxSepOps == 3

SepSigInstrs == {<<OP_1>>, <<OP_CODESEPARATOR>>}

SepPkInstrs == {<<OP_1>>, <<OP_CODESEPARATOR>>, <<OP_RETURN>>}

SepRedeems ==
    {<<OP_CODESEPARATOR, OP_1>>, <<OP_1, OP_CODESEPARATOR, OP_1>>,
     <<OP_1, OP_CODESEPARATOR>>}

SepInputs ==
    (({Flatten(ss) : ss \in SeqsUpTo(SepSigInstrs, MaxSepOps)}
        \X {Flatten(ss) : ss \in SeqsUpTo(SepPkInstrs, MaxSepOps)})
       \X BOOLEAN)
    \cup {<<<<pushInstr(R), p2shScript(Hash160(R))>>, f>> :
             R \in SepRedeems, f \in BOOLEAN}

SpecSep == InitWith(SepInputs) /\ [][Next]_vars

\* ------------------------------------------------------------------- C35
\* The program counter of the engine points at an opcode.
validEngine == hasEngine /\ validPC(Engine) = "nil"

\* C35: in every state of an engine with a valid program counter the
\* last-codesep offset lies between 0 and the length of the current script
\* and is 0 or the offset after an OP_CODESEPARATOR of the current script
\* that has been stepped through; it is 0 after every Step that enters
\* another script; and subScript() returns the opcodes of the script at the
\* current script index from that offset to its end.
C35_SubscriptIsSuffix ==
    /\ [](validEngine =>
            LET cur == scripts[scriptidx + 1]
                sub == subScript(Engine)
            IN /\ 0 <= lastcodesep /\ lastcodesep <= Len(cur)
               /\ lastcodesep > 0 =>
                    /\ cur[lastcodesep].value = OP_CODESEPARATOR
                    /\ lastcodesep <= scriptoff + 1
               /\ Len(sub) = Len(cur) - lastcodesep
               /\ \A i \in 1..Len(sub) : sub[i] = cur[lastcodesep + i])
    /\ [][(pc = "loop" /\ scriptidx' # scriptidx) => lastcodesep' = 0]_vars

\* The redeem script 51 ab 51 runs as script index 2 and its separator has
\* been stepped through: the subscript is the last opcode of the redeem
\* script.
C35_Witness ==
    /\ pc = "loop"
    /\ bip16
    /\ scriptidx = 2
    /\ scriptoff = 2
    /\ lastcodesep = 2
    /\ Len(scripts[3]) = 3
    /\ subScript(Engine) = <<scripts[3][3]>>

\* ------------------------------------------------------------------- C36
\* The opcodes of pops that are no pushes (value above OP_16), in order.
RECURSIVE nonPushOps(_)
nonPushOps(pops) ==
    IF Len(pops) = 0 THEN <<>>
    ELSE IF pops[1].value > OP_16 THEN <<pops[1]>> \o nonPushOps(Tail(pops))
    ELSE nonPushOps(Tail(pops))

\* C36: removeOpcodeByData(script, D) removes only push opcodes: for every
\* D, the empty byte string included, every opcode of the input with a
\* value above OP_16 is in the output.
C36_RemovesOnlyPushes ==
    call.pc = "removedData" => nonPushOps(call.pops) = nonPushOps(call.orig)

\* ------------------------------------------------------------------- C37
\* The transaction stored in engine e of the record c.
engineTx(c, e) == txValue(c, c.engines[e].tx)

\* C37: in every state the transaction stored in an engine has an empty
\* signature script on every input, and calcScriptHash, for every hash
\* type, leaves the stored transaction of every engine (inputs, sequence
\* numbers, outputs, values and pkScripts) as it was.
C37_StoredTxBlank ==
    /\ [](onTx =>
            \A e \in 1..Len(call.engines) :
                \A i \in 1..Len(engineTx(call, e).TxIn) :
                    engineTx(call, e).TxIn[i].SignatureScript = <<>>)
    /\ [][(onTx /\ TxCalcScriptHash) =>
            /\ Len(call'.engines) = Len(call.engines)
            /\ \A e \in 1..Len(call.engines) :
                 engineTx(call', e) = engineTx(call, e)]_vars

\* ------------------------------------ runs that carry state across scripts
\* Most instructions in a generated signature script and public-key script.
MaxCarrySigOps == 4
MaxCarryPkOps == 2

CarrySigInstrs == {<<OP_1>>, <<OP_IF>>, <<OP_TOALTSTACK>>}

CarryPkInstrs == {<<OP_1>>, <<OP_ENDIF>>, <<OP_FROMALTSTACK>>}

CarryInputs ==
    (({Flatten(ss) : ss \in SeqsUpTo(CarrySigInstrs, MaxCarrySigOps)}
        \X {Flatten(ss) : ss \in SeqsUpTo(CarryPkInstrs, MaxCarryPkOps)})
       \X {FALSE})
    \cup {<<<<pre \o pushInstr(R), p2shScript(Hash160(R))>>, TRUE>> :
             pre \in {<<>>, <<OP_1>>}, R \in {<<OP_1>>, <<OP_0>>}}

SpecCarry == InitWith(CarryInputs) /\ [][Next]_vars

====
